---- MODULE Spec2Model ----
(***************************************************************************)
(* A model of the wtvr3d engine core: the arena scene tree (scene/mod.rs), *)
(* the ECS transform hierarchy and its graph pass (component/transform.rs, *)
(* system/scene_graph_system.rs), the asset registry (asset/), the         *)
(* lighting pass (system/lighting_system.rs) and the draw grouping and     *)
(* submission (system/rendering_system.rs, renderer/mod.rs).               *)
(*                                                                         *)
(* Each subsystem has its own specification (SpecScene, SpecGraph, ...)    *)
(* over its own variables; the variables of the other subsystems keep      *)
(* their initial value there.                                              *)
(*                                                                         *)
(* A TransformId { index: i } of the source is the number i + 1 here, so   *)
(* that the arena is a sequence; Option::None is 0.                        *)
(***************************************************************************)
EXTENDS Integers, Sequences, FiniteSets, TLC

VARIABLES
    \* ---- scene/mod.rs: struct Scene
    transforms,         \* Vec<Transform>: the arena
    free_transforms,    \* Vec<TransformId>: slots to reuse, oldest first
    components,         \* HashMap<ComponentId, Component>: cid -> parent tid
    component_mapping,  \* HashMap<TransformId, Vec<ComponentId>>
    next_id,            \* counter of component ids
    sceneOp,            \* history: the last call on the scene, its result
                        \* and the components it took with their parents
    sceneOrder,         \* history: the live transforms, oldest first
    sceneMode,          \* which callers are explored: "any" or "breadth"
    sceneDestroys,      \* history: the destroy calls made so far
    \* ---- the specs world of component/transform.rs
    gParent,            \* TransformParent / Hierarchy: entity -> parent
    gTransform,         \* storage of Transform: entity -> Transform
    gDirty,             \* storage of DirtyTransform: the flagged entities
    gEnabled,           \* storage of Enabled: the flagged entities
    gSets,              \* history: the setter calls made so far
    \* asset/asset_registry.rs: AssetRegistry
    assets,             \* Vec<Asset>
    index,              \* HashMap<String, usize>: string id -> position
    aOp,                \* history: the last register_* call and its result
    \* the Mesh storage of the specs world and the renderer's frame
    rMesh,              \* storage of Mesh: entity -> Mesh, entities 1..n
    rEnabled,           \* storage of Enabled: the flagged mesh entities
    rAttribs,           \* materials with the attribute locations cached
    rLookupDone,        \* mesh data whose lookup_done is set
    rPhase,             \* the dispatcher: "idle" or "compiled"
    rGroups,            \* sorted_meshes as built in the last rendering pass
    rLog,               \* what the frame has done: GL calls and errors
    \* the light storages of the specs world and the LightRepository
    lLights,            \* entity -> its Light, Direction, Cone, Transform
    lEnabled,           \* storage of Enabled: the flagged light entities
    light_repository,   \* resource LightRepository
    light_configuration, \* resource LightConfiguration
    lStale,             \* history: the last pass met leftovers of a frame
    \* renderer/material.rs: one Material and one MaterialInstance of it
    shared_uniforms,    \* Material.shared_uniforms: name -> Uniform
    uniforms,           \* MaterialInstance.uniforms: name -> Uniform
    uLog,               \* what the last set_uniforms_to_context did
    uOp,                \* history: the last call and its arguments
    \* the location caches of one Material and the GPU context they query
    in_program,         \* the names the linked WebGlProgram answers for
    qUniform,           \* one Uniform of the material
    global_uniform_locations, \* Material.global_uniform_locations
    buffer_config,      \* Material.buffer_config
    queries,            \* the context: location queries made, per name
    qOp,                \* history: the last lookup call, its arguments and
                        \* the queries made before it
    \* asset/material.rs: one Material and the programs of the context
    pMaterial,          \* the Material: program, shader texts, ...
    programs_linked,    \* the context: the programs linked so far
    pOp,                \* history: the last call on the Material
    \* renderer/light_repository.rs: the light uniforms of one Material
    upLog,              \* the GL calls of the last set_material_uniforms
    upPanicked,         \* an index went out of bounds: the frame is lost
    \* renderer/buffer.rs: one Buffer
    bBuffer,            \* the Buffer
    bLog,               \* the GL calls of the last enable_and_bind_attribute
    bPanicked,          \* the last enable_and_bind_attribute panicked
    \* asset/mesh.rs: one Mesh and the buffers of the context
    mMesh,              \* the Mesh
    buffers_created,    \* how many buffers the context has created
    mOp,                \* history: the last call on the Mesh, its result
    mLast,              \* history: the result of the last construct since
                        \* the last deconstruct, "none" without one
    \* renderer/mod.rs, component/camera.rs: the canvas and the camera
    main_camera,        \* Renderer.main_camera: the Camera
    canvas,             \* the drawing buffer of the canvas: width, height
    viewport,           \* the viewport of the context: width, height
    cOp,                \* history: the last call and what it returned
    \* asset/mesh.rs: one Buffer of the host
    abBuffer,           \* the Buffer
    abOp                \* history: the last call on it and its result

sceneVars == <<transforms, free_transforms, components, component_mapping,
               next_id, sceneOp, sceneOrder, sceneMode,
               sceneDestroys>>

graphVars == <<gParent, gTransform, gDirty, gEnabled, gSets>>

assetVars == <<assets, index, aOp>>

renderVars == <<rMesh, rEnabled, rAttribs, rLookupDone, rPhase, rGroups,
                rLog>>

lightVars == <<lLights, lEnabled, light_repository, light_configuration,
               lStale>>

uniformVars == <<shared_uniforms, uniforms, uLog, uOp>>

coreVars == <<sceneVars, graphVars, assetVars, renderVars, lightVars>>

\* The subsystems that follow the lighting
locationVars == <<in_program, qUniform, global_uniform_locations,
                  buffer_config, queries, qOp>>

programVars == <<pMaterial, programs_linked, pOp>>

moreVars == <<uniformVars, locationVars, programVars>>

\* The uploads of a frame and the objects they go through
uploadVars == <<upLog, upPanicked>>

bufferVars == <<bBuffer, bLog, bPanicked>>

meshVars == <<mMesh, buffers_created, mOp, mLast>>

cameraVars == <<main_camera, canvas, viewport, cOp>>

assetBufferVars == <<abBuffer, abOp>>

lastVars == <<meshVars, cameraVars, assetBufferVars>>

lateVars == <<uploadVars, bufferVars, lastVars>>

vars == <<coreVars, moreVars, lateVars>>

\* What a step of one subsystem leaves alone
notSceneVars == <<graphVars, assetVars, renderVars, lightVars, moreVars,
                  lateVars>>
notGraphVars == <<sceneVars, assetVars, renderVars, lightVars, moreVars,
                  lateVars>>
notAssetVars == <<sceneVars, graphVars, renderVars, lightVars, moreVars,
                  lateVars>>
notRenderVars == <<sceneVars, graphVars, assetVars, lightVars, moreVars,
                  lateVars>>
notLightVars == <<sceneVars, graphVars, assetVars, renderVars, moreVars,
                  lateVars>>
notUniformVars == <<coreVars, locationVars, programVars, lateVars>>
notLocationVars == <<coreVars, uniformVars, programVars, lateVars>>
notProgramVars == <<coreVars, uniformVars, locationVars, lateVars>>
notCameraVars ==
    <<coreVars, moreVars, uploadVars, bufferVars, meshVars, assetBufferVars>>
notMeshVars ==
    <<coreVars, moreVars, uploadVars, bufferVars, cameraVars,
      assetBufferVars>>

None == 0

\* The GL call behind a Result of set_to_context, if one was made: what
\* `.ok()` leaves of it
ok_call(result) == IF result[1] = "Ok" THEN <<result[2]>> ELSE <<>>

\* HashMap::insert: a present key gets the new value
insert(map, key, value) ==
    [k \in DOMAIN map \cup {key} |-> IF k = key THEN value ELSE map[k]]

\* ------------------------------------------------------------------------
\* Bounds
\* ------------------------------------------------------------------------
\* Callers of the scene are explored in two ways.  In mode "any" every
\* interleaving of append_new and destroy on live ids, in an arena of at
\* most MaxTransforms slots.  In mode "breadth" the caller fills the tree
\* breadth first, MaxKids children per node (the new node always goes under
\* the oldest node that has fewer), in an arena of at most MaxDeep slots,
\* and destroys any live node at any time, MaxDestroys times: this reaches
\* the node with two children and four grandchildren.
MaxTransforms == 4
MaxDestroys == 2
\* In mode "components" the arena has at most MaxOwners slots and the
\* caller adds at most MaxComponents components, to any live transform,
\* and removes any of them.
MaxOwners == 3
MaxComponents == 3
MaxDeep == 7
MaxKids == 2
\* The specs world holds at most MaxEntities entities, of which at most
\* MaxDisabled are disabled at a time, and the host calls a TRS setter at
\* most MaxSets times.
MaxEntities == 3
MaxDisabled == 1
MaxSets == 1

\* The registry holds at most MaxAssets assets.
MaxAssets == 2

\* The world holds at most MaxMeshes mesh entities.
MaxMeshes == 3

\* The world holds at most MaxLights light entities.
MaxLights == 2

\* ------------------------------------------------------------------------
\* scene/transform.rs
\* ------------------------------------------------------------------------
\* Transform::new: a live node with no links (TRS and matrix are not
\* read by the tree operations and are left out).
Transform_new ==
    [dead |-> FALSE, parent |-> None, first_child |-> None,
     last_child |-> None, next_sibling |-> None, previous_sibling |-> None]

set_dead(t) == [t EXCEPT !.dead = TRUE]

\* ------------------------------------------------------------------------
\* scene/mod.rs: the scene as a value, S = [transforms, free_transforms,
\* components, component_mapping] so that the recursion of destroy can
\* thread it.
\* ------------------------------------------------------------------------
Scene_new ==
    [transforms |-> <<>>, free_transforms |-> <<>>,
     components |-> <<>>, component_mapping |-> <<>>]

reuse_lifo(S) ==
    IF S.free_transforms # <<>>
    THEN S.free_transforms[Len(S.free_transforms)]
    ELSE Len(S.transforms) + 1

\* The slot append_new writes to: the head of the free list, or a new slot.
result_slot(S) ==
    IF S.free_transforms # <<>>
    THEN S.free_transforms[1]
    ELSE Len(S.transforms) + 1

\* The vector left as it is
keep_first(s) == s

\* free_transforms.remove(0)
remove_first(s) == SubSeq(s, 2, Len(s))

\* The linking of the new node under its parent (lines 92-109 of append_new).
link_under_parent(T, parent_id, result) ==
    LET last_child == T[parent_id].last_child
        T1 == [T EXCEPT ![parent_id].last_child = result,
                        ![parent_id].first_child =
                            IF @ = None THEN result ELSE @]
    IN  IF last_child # None
        THEN [T1 EXCEPT ![last_child].next_sibling = result]
        ELSE T1

append_new(S, parent) ==
    LET result == result_slot(S)
        t0 == [Transform_new EXCEPT !.parent = parent]
        t  == IF parent # None
              THEN [t0 EXCEPT !.previous_sibling =
                                  S.transforms[parent].last_child]
              ELSE t0
        T1 == IF parent # None
              THEN link_under_parent(S.transforms, parent, result)
              ELSE S.transforms
        T2 == IF S.free_transforms # <<>>
              THEN [T1 EXCEPT ![S.free_transforms[1]] = t]
              ELSE Append(T1, t)
        F2 == IF S.free_transforms # <<>>
              THEN remove_first(S.free_transforms)
              ELSE S.free_transforms
    IN  [scene |-> [S EXCEPT !.transforms = T2, !.free_transforms = F2],
         result |-> result]

keep_components(S, tid) == S

\* The component clean-up at the head of destroy (lines 123-132).
destroy_components(S, tid) ==
    LET comps == IF tid \in DOMAIN S.component_mapping
                 THEN S.component_mapping[tid] ELSE <<>>
        gone  == {comps[i] : i \in 1..Len(comps)}
    IN  [S EXCEPT
           !.components = [c \in (DOMAIN S.components) \ gone |->
                              S.components[c]],
           !.component_mapping =
                [t \in (DOMAIN S.component_mapping) \ {tid} |->
                    S.component_mapping[t]]]

unlink_keep_parent(T, tid, psib, nsib, parent) ==
    LET T1 == IF psib # None THEN [T EXCEPT ![psib].next_sibling = nsib]
              ELSE T
        T2 == IF nsib # None THEN [T1 EXCEPT ![nsib].previous_sibling = psib]
              ELSE T1
    IN  T2

\* The re-linking at the tail of destroy (lines 145-161).
unlink(T, tid, psib, nsib, parent) ==
    LET T1 == IF psib # None THEN [T EXCEPT ![psib].next_sibling = nsib]
              ELSE T
        T2 == IF nsib # None THEN [T1 EXCEPT ![nsib].previous_sibling = psib]
              ELSE T1
        T3 == IF parent # None /\ T2[parent].first_child = tid
              THEN [T2 EXCEPT ![parent].first_child = nsib] ELSE T2
        T4 == IF parent # None /\ T3[parent].last_child = tid
              THEN [T3 EXCEPT ![parent].last_child = psib] ELSE T3
    IN  T4

RECURSIVE destroy(_, _)
RECURSIVE destroy_children(_, _)

destroy_first_child_only(S, next_child) ==
    IF next_child = None THEN S ELSE destroy(S, next_child)

\* while let Some(next_tid) = next_child { destroy; next = its next_sibling }
destroy_children(S, next_child) ==
    IF next_child = None THEN S
    ELSE LET S1 == destroy(S, next_child)
         IN  destroy_children(S1, S1.transforms[next_child].next_sibling)

destroy(S, tid) ==
    LET S1 == destroy_components(S, tid)
        t  == S1.transforms[tid]
        psib == t.previous_sibling
        nsib == t.next_sibling
        parent == t.parent
        S2 == [S1 EXCEPT !.transforms[tid] = set_dead(@),
                         !.free_transforms = Append(@, tid)]
        S3 == destroy_children(S2, t.first_child)
    IN  [S3 EXCEPT !.transforms = unlink(@, tid, psib, nsib, parent)]

\* The id taken from the number of components the scene holds
add_component_counting(S, next, parent_id) ==
    LET cid == Cardinality(DOMAIN S.components)
    IN  [scene |->
            [S EXCEPT
               !.components = insert(@, cid, parent_id),
               !.component_mapping =
                  IF parent_id \in DOMAIN @
                  THEN [@ EXCEPT ![parent_id] = Append(@, cid)]
                  ELSE insert(@, parent_id, <<cid>>)],
         next_id |-> next + 1,
         result |-> cid]

\* add_component: the component gets the id next_id and is pushed to
\* the list of its parent.  A component is its parent's id here.
add_component(S, next, parent_id) ==
    LET cid == next
    IN  [scene |->
            [S EXCEPT
               !.components = insert(@, cid, parent_id),
               !.component_mapping =
                  IF parent_id \in DOMAIN @
                  THEN [@ EXCEPT ![parent_id] = Append(@, cid)]
                  ELSE insert(@, parent_id, <<cid>>)],
         next_id |-> next + 1,
         result |-> cid]

\* Vec::remove(i), i counted from 0
vec_remove(vec, i) ==
    [k \in 1..(Len(vec) - 1) |-> IF k <= i THEN vec[k] ELSE vec[k + 1]]

\* for i in 0..vec.len() { if vec[i] == cid { vec.remove(i); } }: the
\* range is taken once, n is the length before the loop; vec[i] past the
\* end of the vector panics.
RECURSIVE remove_from_vec(_, _, _, _)
remove_from_vec(vec, cid, i, n) ==
    IF i >= n THEN [vec |-> vec, panicked |-> FALSE]
    ELSE IF i >= Len(vec) THEN [vec |-> vec, panicked |-> TRUE]
    ELSE IF vec[i + 1] = cid
         THEN remove_from_vec(vec_remove(vec, i), cid, i + 1, n)
         ELSE remove_from_vec(vec, cid, i + 1, n)

\* remove_component
remove_component(S, cid) ==
    LET parent_id == IF cid \in DOMAIN S.components THEN S.components[cid]
                     ELSE None
        S1 == [S EXCEPT !.components =
                  [c \in (DOMAIN @) \ {cid} |-> @[c]]]
    IN  IF parent_id # None /\ parent_id \in DOMAIN S1.component_mapping
        THEN LET vec == S1.component_mapping[parent_id]
                 r == remove_from_vec(vec, cid, 0, Len(vec))
             IN  [scene |-> [S1 EXCEPT !.component_mapping[parent_id] = r.vec],
                  panicked |-> r.panicked]
        ELSE [scene |-> S1, panicked |-> FALSE]

\* ------------------------------------------------------------------------
\* The scene as a state machine
\* ------------------------------------------------------------------------
TheScene ==
    [transforms |-> transforms, free_transforms |-> free_transforms,
     components |-> components, component_mapping |-> component_mapping]

Slots == 1..Len(transforms)
Live == {i \in Slots : ~transforms[i].dead}

\* The nodes of the subtree of tid, by the parent links, in the arena T.
RECURSIVE IsUnder(_, _, _, _)
IsUnder(T, n, tid, fuel) ==
    IF n = tid THEN TRUE
    ELSE IF n = None \/ fuel = 0 THEN FALSE
    ELSE IsUnder(T, T[n].parent, tid, fuel - 1)

Subtree(T, tid) ==
    {n \in 1..Len(T) : ~T[n].dead /\ IsUnder(T, n, tid, Len(T))}

Links(t) ==
    {t.parent, t.first_child, t.last_child, t.next_sibling,
     t.previous_sibling} \ {None}

RECURSIVE Chain(_, _, _)
Chain(T, n, fuel) ==
    IF n = None \/ fuel = 0 THEN <<>>
    ELSE <<n>> \o Chain(T, T[n].next_sibling, fuel - 1)

\* The children of p as the traversal first_child, next_sibling, ... sees them
ChildChain(T, p) == Chain(T, T[p].first_child, Len(T) + 1)

\* The live children of p by their parent link, oldest first
ChildrenByAge(p) ==
    SelectSeq(sceneOrder, LAMBDA n : transforms[n].parent = p)

\* The callers explored (see Bounds)
NotFull == SelectSeq(sceneOrder, LAMBDA n : Len(ChildrenByAge(n)) < MaxKids)

\* A panic ends the program
Panicked == sceneOp.name = "remove_component" /\ sceneOp.panicked

CallerAppends(parent) ==
    IF sceneMode = "any"
    THEN free_transforms # <<>> \/ Len(transforms) < MaxTransforms
    ELSE IF sceneMode = "components"
    THEN /\ ~Panicked
         /\ free_transforms # <<>> \/ Len(transforms) < MaxOwners
    ELSE /\ free_transforms # <<>> \/ Len(transforms) < MaxDeep
         /\ parent = (IF NotFull = <<>> THEN None ELSE NotFull[1])

CallerDestroys ==
    /\ sceneMode = "breadth" => sceneDestroys < MaxDestroys
    /\ sceneMode = "components" => ~Panicked

\* Scene::new
SceneStart ==
    /\ sceneDestroys = 0
    /\ transforms = Scene_new.transforms
    /\ free_transforms = Scene_new.free_transforms
    /\ components = Scene_new.components
    /\ component_mapping = Scene_new.component_mapping
    /\ next_id = 0
    /\ sceneOp = [name |-> "new", tid |-> None, parent |-> None,
                  result |-> None]
    /\ sceneOrder = <<>>

SceneInit ==
    /\ sceneMode \in {"any", "breadth"}
    /\ SceneStart

SetScene(S) ==
    /\ transforms' = S.transforms
    /\ free_transforms' = S.free_transforms
    /\ components' = S.components
    /\ component_mapping' = S.component_mapping

\* scene.append_new(parent) with parent None or a live id
AppendNew(parent) ==
    /\ parent = None \/ parent \in Live
    /\ CallerAppends(parent)
    /\ LET r == append_new(TheScene, parent)
       IN  /\ SetScene(r.scene)
           /\ sceneOp' = [name |-> "append_new", tid |-> None,
                          parent |-> parent, result |-> r.result]
           /\ sceneOrder' = Append(sceneOrder, r.result)
    /\ UNCHANGED <<next_id, sceneMode, sceneDestroys, notSceneVars>>

\* scene.destroy(tid) with a live id
Destroy(tid) ==
    /\ tid \in Live
    /\ CallerDestroys
    /\ LET S == destroy(TheScene, tid)
           sub == Subtree(transforms, tid)
       IN  /\ SetScene(S)
           /\ sceneOrder' = SelectSeq(sceneOrder, LAMBDA n : n \notin sub)
    /\ sceneOp' = [name |-> "destroy", tid |-> tid, parent |-> None,
                   result |-> None,
                   gone |-> [c \in (DOMAIN components)
                                \ DOMAIN destroy(TheScene, tid).components
                             |-> components[c]]]
    /\ sceneDestroys' = IF sceneMode = "breadth" THEN sceneDestroys + 1
                        ELSE sceneDestroys
    /\ UNCHANGED <<next_id, sceneMode, notSceneVars>>

SceneNext ==
    \/ \E parent \in {None} \cup Slots : AppendNew(parent)
    \/ \E tid \in Slots : Destroy(tid)

\* scene.add_component(comp, parent_id) with a live parent
AddComponent(parent_id) ==
    /\ ~Panicked
    /\ parent_id \in Live
    /\ next_id < MaxComponents
    /\ LET r == add_component(TheScene, next_id, parent_id)
       IN  /\ SetScene(r.scene)
           /\ next_id' = r.next_id
           /\ sceneOp' = [name |-> "add_component", tid |-> parent_id,
                          parent |-> None, result |-> None,
                          cid |-> r.result]
    /\ UNCHANGED <<sceneOrder, sceneMode, sceneDestroys, notSceneVars>>

\* scene.remove_component(cid) with the id of a component of the scene
RemoveComponent(cid) ==
    /\ ~Panicked
    /\ cid \in DOMAIN components
    /\ LET r == remove_component(TheScene, cid)
       IN  /\ SetScene(r.scene)
           /\ sceneOp' = [name |-> "remove_component",
                          tid |-> components[cid], parent |-> None,
                          result |-> None, cid |-> cid,
                          panicked |-> r.panicked]
    /\ UNCHANGED <<next_id, sceneOrder, sceneMode, sceneDestroys,
                   notSceneVars>>

ComponentNext ==
    \/ \E parent \in {None} \cup Slots : AppendNew(parent)
    \/ \E tid \in Slots : Destroy(tid)
    \/ \E parent_id \in Slots : AddComponent(parent_id)
    \/ \E cid \in 0..(MaxComponents - 1) : RemoveComponent(cid)


\* ------------------------------------------------------------------------
\* component/transform.rs: Transform (the specs component)
\*
\* A 4x4 matrix is the sequence of the local matrices it is the product of
\* (the free monoid: the product is \o, the identity is <<>>), a local
\* matrix being the triple of the translation, rotation and scale it is
\* computed from.
\* ------------------------------------------------------------------------
Matrix4_identity == <<>>

Transform_new3(translation, rotation, scale) ==
    [local_translation |-> translation, local_rotation |-> rotation,
     local_scale |-> scale, world_matrix |-> Matrix4_identity,
     dirty |-> TRUE]

set_translation(t, v) ==
    [t EXCEPT !.local_translation = v, !.dirty = TRUE]

set_rotation(t, v) == [t EXCEPT !.local_rotation = v, !.dirty = TRUE]

set_scale(t, v) == [t EXCEPT !.local_scale = v, !.dirty = TRUE]

\* isometry.to_homogeneous() * scale_matrix
local_matrix(t) ==
    << <<t.local_translation, t.local_rotation, t.local_scale>> >>

\* parent_world_matrix is <<"Some", m>> or <<"None">>
refresh_world_matrix(t, parent_world_matrix) ==
    [t EXCEPT !.world_matrix =
                 IF parent_world_matrix[1] = "Some"
                 THEN parent_world_matrix[2] \o local_matrix(t)
                 ELSE local_matrix(t),
              !.dirty = FALSE]

\* Result<Matrix4, String>: <<"Ok", m>> or <<"Err">>
get_world_matrix(t) ==
    IF t.dirty THEN <<"Err">> ELSE <<"Ok", t.world_matrix>>

\* ------------------------------------------------------------------------
\* specs_hierarchy::Hierarchy<TransformParent>, as its documentation has it
\* ------------------------------------------------------------------------
Entities == DOMAIN gParent

RECURSIVE HasAncestor(_, _, _, _)
HasAncestor(P, e, a, fuel) ==
    IF e = None \/ fuel = 0 THEN FALSE
    ELSE IF P[e] = a THEN TRUE
    ELSE HasAncestor(P, P[e], a, fuel - 1)

\* hierarchy.all_children_iter(e): all the descendants of e
all_children(P, e) ==
    {c \in DOMAIN P : HasAncestor(P, c, e, Cardinality(DOMAIN P))}

\* hierarchy.all(): the entities that have a parent, parents before
\* children, in any such order
RECURSIVE topological(_, _, _)
topological(P, placed, rest) ==
    IF rest = {} THEN {<<>>}
    ELSE UNION {
            {<<e>> \o tail : tail \in
                 topological(P, placed \cup {e}, rest \ {e})} :
            e \in {x \in rest : P[x] \in placed}}

hierarchy_all(P) ==
    topological(P, {e \in DOMAIN P : P[e] = None},
                {e \in DOMAIN P : P[e] # None})

\* ------------------------------------------------------------------------
\* system/scene_graph_system.rs: SceneGraphSystem::run
\* ------------------------------------------------------------------------
\* (&entities, &mut transforms, &mut dirty, &enabled).join()
joined(D, E) == D \cap E

\* The keys of dirty_transforms after the first loop (lines 23-39); the
\* value of a key is its parent.
dirty_only(P, D, E) == joined(D, E)

dirty_transforms(P, D, E) ==
    joined(D, E) \cup UNION {all_children(P, e) : e \in joined(D, E)}

\* Line 50 reads the parent's world matrix with get_world_matrix() and
\* hands the result on as a matrix.  For a clean parent this is its
\* world matrix.  For a dirty parent the read is an Err: the matrix handed
\* on is then either the parent's stale world matrix (get_world_matrix as
\* the other callers, lighting_system.rs:54 and renderer/mod.rs:243, use
\* it, a plain matrix) or none at all (the Err dropped); how is the
\* caller-chosen `how`.
parent_matrix(T, parent, how) ==
    LET r == get_world_matrix(T[parent])
    IN  IF r[1] = "Ok" THEN <<"Some", r[2]>>
        ELSE IF how = "stale" THEN <<"Some", T[parent].world_matrix>>
        ELSE <<"None">>

\* The second loop (lines 40-45): the roots of dirty_transforms
refresh_roots(T, P, keys) ==
    [e \in DOMAIN T |->
        IF e \in keys /\ P[e] = None
        THEN refresh_world_matrix(T[e], <<"None">>) ELSE T[e]]

\* The third loop (lines 46-55), over hierarchy.all() = order
RECURSIVE refresh_children(_, _, _, _, _, _)
refresh_children(T, P, keys, order, i, how) ==
    IF i > Len(order) THEN T
    ELSE LET e == order[i]
             T1 == IF e \in keys
                   THEN [T EXCEPT ![e] = refresh_world_matrix(T[e],
                                        parent_matrix(T, P[e], how))]
                   ELSE T
         IN  refresh_children(T1, P, keys, order, i + 1, how)

\* ------------------------------------------------------------------------
\* The world as a state machine.  The host functions that create an
\* entity, move it and enable or disable it are not part of the sources:
\* they are modelled from the specification (a TRS setter marks the node
\* dirty; a new node is dirty and enabled).
\* ------------------------------------------------------------------------
\* A component of a translation, rotation or scale: one of two values
Vals == {0, 1}

GraphInit ==
    /\ gParent = <<>>
    /\ gTransform = <<>>
    /\ gDirty = {}
    /\ gEnabled = {}
    /\ gSets = 0

CreateEntity(parent) ==
    /\ Cardinality(Entities) < MaxEntities
    /\ parent = None \/ parent \in Entities
    /\ LET e == Cardinality(Entities) + 1
       IN  /\ gParent' = [x \in Entities \cup {e} |->
                             IF x = e THEN parent ELSE gParent[x]]
           /\ gTransform' = [x \in Entities \cup {e} |->
                             IF x = e THEN Transform_new3(0, 0, 0)
                             ELSE gTransform[x]]
           /\ gDirty' = gDirty \cup {e}
           /\ gEnabled' = gEnabled \cup {e}
           /\ UNCHANGED <<gSets, notGraphVars>>

SetTranslation(e, v) ==
    /\ e \in Entities
    /\ gSets < MaxSets
    /\ gTransform' = [gTransform EXCEPT ![e] = set_translation(@, v)]
    /\ gDirty' = gDirty \cup {e}
    /\ gSets' = gSets + 1
    /\ UNCHANGED <<gParent, gEnabled, notGraphVars>>

SetRotation(e, v) ==
    /\ e \in Entities
    /\ gSets < MaxSets
    /\ gTransform' = [gTransform EXCEPT ![e] = set_rotation(@, v)]
    /\ gDirty' = gDirty \cup {e}
    /\ gSets' = gSets + 1
    /\ UNCHANGED <<gParent, gEnabled, notGraphVars>>

SetScale(e, v) ==
    /\ e \in Entities
    /\ gSets < MaxSets
    /\ gTransform' = [gTransform EXCEPT ![e] = set_scale(@, v)]
    /\ gDirty' = gDirty \cup {e}
    /\ gSets' = gSets + 1
    /\ UNCHANGED <<gParent, gEnabled, notGraphVars>>

SetEnabled(e, on) ==
    /\ e \in Entities
    /\ (e \in gEnabled) # on
    /\ ~on => Cardinality(Entities \ gEnabled) < MaxDisabled
    /\ gEnabled' = IF on THEN gEnabled \cup {e} ELSE gEnabled \ {e}
    /\ UNCHANGED <<gParent, gTransform, gDirty, gSets, notGraphVars>>

\* The ways line 50 can go in this pass: both, when some entity to refresh
\* has a parent that is dirty and is not refreshed itself
DirtyReads(T, keys) ==
    IF \E e \in keys : gParent[e] # None /\ gParent[e] \notin keys
                        /\ T[gParent[e]].dirty
    THEN {"stale", "none"} ELSE {"stale"}

SceneGraphSystem_run ==
    /\ Entities # {}
    /\ LET keys == dirty_transforms(gParent, gDirty, gEnabled)
           T1 == refresh_roots(gTransform, gParent, keys)
       IN  \E order \in hierarchy_all(gParent), how \in DirtyReads(T1, keys) :
              /\ gTransform' = refresh_children(T1, gParent, keys, order,
                                                1, how)
              /\ gDirty' = gDirty \ keys
    /\ UNCHANGED <<gParent, gEnabled, gSets, notGraphVars>>

GraphNext ==
    \/ \E parent \in {None} \cup Entities : CreateEntity(parent)
    \/ \E e \in Entities, v \in Vals : SetTranslation(e, v)
    \/ \E e \in Entities, v \in Vals : SetRotation(e, v)
    \/ \E e \in Entities, v \in Vals : SetScale(e, v)
    \/ \E e \in Entities, on \in BOOLEAN : SetEnabled(e, on)
    \/ SceneGraphSystem_run

\* ------------------------------------------------------------------------
\* asset/asset_registry.rs and asset/mod.rs: the asset registry
\* ------------------------------------------------------------------------
\* The string ids the asset files carry
Ids == {"a", "b", "c"}

\* The byte arrays handed to register_*: the serialisation of a MeshFile,
\* of a MaterialFile (whose shaders compile or do not), of a
\* MaterialInstanceFile, or bytes that are no file at all.
Bytes ==
    {[file |-> "garbage"]}
    \cup {[file |-> "MeshFile", id |-> i] : i \in Ids}
    \cup {[file |-> "MaterialFile", id |-> i, compiles |-> c] :
             i \in Ids, c \in BOOLEAN}
    \cup {[file |-> "MaterialInstanceFile", id |-> i, parent_id |-> q] :
             i \in Ids, q \in Ids}

AssetRegistry_new == [assets |-> <<>>, index |-> <<>>]

Asset_None == [kind |-> "None"]

\* bincode::deserialize::<F>(data)
deserialize(F, data) ==
    IF data.file = F THEN <<"Ok", data>> ELSE <<"Err">>

get_id_from_str(R, str_id) ==
    IF str_id \in DOMAIN R.index THEN <<"Some", R.index[str_id]>>
    ELSE <<"None">>

\* positions are usize, from 0: assets[i] is the (i+1)th of the sequence
get_asset(R, id) ==
    IF id \in DOMAIN R.index THEN R.assets[R.index[id] + 1]
    ELSE Asset_None

\* &self.assets[asset.to_owned()] of get_asset: a position past the end
\* of the Vec panics
get_asset_panics(R, id) ==
    id \in DOMAIN R.index /\ ~(R.index[id] < Len(R.assets))

get_mesh_data(R, id) ==
    IF get_asset(R, id).kind = "MeshData"
    THEN <<"Some", get_asset(R, id)>> ELSE <<"None">>

get_material(R, id) ==
    IF get_asset(R, id).kind = "Material"
    THEN <<"Some", get_asset(R, id)>> ELSE <<"None">>

get_material_instance(R, id) ==
    IF get_asset(R, id).kind = "MaterialInstance"
    THEN <<"Some", get_asset(R, id)>> ELSE <<"None">>

get_texture(R, id) ==
    IF get_asset(R, id).kind = "Texture"
    THEN <<"Some", get_asset(R, id)>> ELSE <<"None">>

deserialize_wmesh(data) ==
    LET r == deserialize("MeshFile", data)
    IN  IF r[1] = "Err" THEN <<"Err">>
        ELSE <<"Ok", [kind |-> "MeshData", id |-> r[2].id]>>

\* Material::new compiles the shaders and fails when they do not compile;
\* the new material is opaque
make_material_from(mat_file) ==
    IF mat_file.compiles
    THEN <<"Ok", [kind |-> "Material", id |-> mat_file.id, opaque |-> TRUE]>>
    ELSE <<"Err">>

\* Material::set_transparent
set_transparent(material, transparent) ==
    [material EXCEPT !.opaque = ~transparent]

\* Material::is_transparent
is_transparent(material) == ~material.opaque

deserialize_wmaterial(data) ==
    LET r == deserialize("MaterialFile", data)
    IN  IF r[1] = "Err" THEN <<"Err">> ELSE make_material_from(r[2])

\* The instance holds an Rc of its parent: the parent's place in assets
make_material_instance_from(R, mat_instance_file) ==
    IF get_material(R, mat_instance_file.parent_id)[1] = "Some"
    THEN <<"Ok", [kind |-> "MaterialInstance",
                  id |-> mat_instance_file.id,
                  parent |-> R.index[mat_instance_file.parent_id]]>>
    ELSE <<"Err">>

deserialize_wmatinstance(R, data) ==
    LET r == deserialize("MaterialInstanceFile", data)
    IN  IF r[1] = "Err" THEN <<"Err">>
        ELSE make_material_instance_from(R, r[2])

\* The Ok arm of register_*: index.insert(id, assets.len()); assets.push
push_asset(R, asset) ==
    [assets |-> Append(R.assets, asset),
     index |-> insert(R.index, asset.id, Len(R.assets))]

register_mesh_data(R, wmesh_data) ==
    LET r == deserialize_wmesh(wmesh_data)
    IN  IF r[1] = "Ok"
        THEN [registry |-> push_asset(R, r[2]), result |-> <<"Ok", r[2].id>>]
        ELSE [registry |-> R, result |-> <<"Err">>]

register_material(R, wmaterial_data) ==
    LET r == deserialize_wmaterial(wmaterial_data)
    IN  IF r[1] = "Ok"
        THEN [registry |-> push_asset(R, r[2]), result |-> <<"Ok", r[2].id>>]
        ELSE [registry |-> R, result |-> <<"Err">>]

register_instance_index_first(R, wmaterial_data) ==
    LET f == deserialize("MaterialInstanceFile", wmaterial_data)
        r == deserialize_wmatinstance(R, wmaterial_data)
    IN  IF r[1] = "Ok"
        THEN [registry |-> push_asset(R, r[2]), result |-> <<"Ok", r[2].id>>]
        ELSE [registry |->
                 IF f[1] = "Ok"
                 THEN [R EXCEPT !.index = insert(@, f[2].id, Len(R.assets))]
                 ELSE R,
              result |-> <<"Err">>]

register_material_instance(R, wmaterial_data) ==
    LET r == deserialize_wmatinstance(R, wmaterial_data)
    IN  IF r[1] = "Ok"
        THEN [registry |-> push_asset(R, r[2]), result |-> <<"Ok", r[2].id>>]
        ELSE [registry |-> R, result |-> <<"Err">>]

\* created: context.create_texture() gave a texture; bound: tex_image_2d
\* succeeded
register_texture(R, created, bound, id) ==
    IF created /\ bound
    THEN [registry |-> push_asset(R, [kind |-> "Texture", id |-> id]),
          result |-> <<"Ok", id>>]
    ELSE [registry |-> R, result |-> <<"Err">>]

TheRegistry == [assets |-> assets, index |-> index]

AssetInit ==
    /\ assets = AssetRegistry_new.assets
    /\ index = AssetRegistry_new.index
    /\ aOp = [name |-> "new", data |-> [file |-> "garbage"],
              result |-> <<"Ok", "">>]

\* A call of a register_* function: the registry becomes what the call
\* leaves and the call with its result is noted.
Registers(name, data, r) ==
    /\ Len(r.registry.assets) <= MaxAssets
    /\ assets' = r.registry.assets
    /\ index' = r.registry.index
    /\ aOp' = [name |-> name, data |-> data, result |-> r.result]
    /\ UNCHANGED notAssetVars

RegisterMeshData(data) ==
    Registers("register_mesh_data", data,
              register_mesh_data(TheRegistry, data))

RegisterMaterial(data) ==
    Registers("register_material", data,
              register_material(TheRegistry, data))

RegisterMaterialInstance(data) ==
    Registers("register_material_instance", data,
              register_material_instance(TheRegistry, data))

RegisterTexture(created, bound, id) ==
    Registers("register_texture",
              [file |-> "image", id |-> id, created |-> created,
               bound |-> bound],
              register_texture(TheRegistry, created, bound, id))

AssetNext ==
    \/ \E data \in Bytes : RegisterMeshData(data)
    \/ \E data \in Bytes : RegisterMaterial(data)
    \/ \E data \in Bytes : RegisterMaterialInstance(data)
    \/ \E created, bound \in BOOLEAN, id \in Ids :
          RegisterTexture(created, bound, id)

\* ------------------------------------------------------------------------
\* component/mesh.rs, system/shader_compilation_system.rs,
\* system/rendering_system.rs and renderer/mod.rs: a frame
\* ------------------------------------------------------------------------
\* std::usize::MAX, with usize three bits wide
usize_MAX == 7

Mesh_new(mesh_data_id, material_instance_id, material_id) ==
    [mesh_data |-> mesh_data_id, material |-> material_id,
     material_instance |-> material_instance_id]

get_mesh_data_with_index(R, id) ==
    IF id < Len(R.assets) /\ R.assets[id + 1].kind = "MeshData"
    THEN <<"Some", id>> ELSE <<"None">>

get_any_with_index(R, id) ==
    IF id < Len(R.assets) THEN <<"Some", id>> ELSE <<"None">>

get_material_with_index(R, id) ==
    IF id < Len(R.assets) /\ R.assets[id + 1].kind = "Material"
    THEN <<"Some", id>> ELSE <<"None">>

get_material_instance_with_index(R, id) ==
    IF id < Len(R.assets) /\ R.assets[id + 1].kind = "MaterialInstance"
    THEN <<"Some", id>> ELSE <<"None">>

get_texture_with_index(R, id) ==
    IF id < Len(R.assets) /\ R.assets[id + 1].kind = "Texture"
    THEN <<"Some", id>> ELSE <<"None">>

\* The registry of the renderer: a material, a mesh data and an instance of
\* the material, registered in this order
RenderRegistry ==
    LET r1 == register_material(AssetRegistry_new,
                 [file |-> "MaterialFile", id |-> "a",
                  compiles |-> TRUE]).registry
        r2 == register_mesh_data(r1,
                 [file |-> "MeshFile", id |-> "b"]).registry
    IN  register_material_instance(r2,
            [file |-> "MaterialInstanceFile", id |-> "c",
             parent_id |-> "a"]).registry

\* The ids a Mesh may carry: the position of the registered asset of the
\* kind, the first position past the registry and, for the instance,
\* usize::MAX
MaterialRefs == {0, Len(RenderRegistry.assets)}
MeshDataRefs == {1, Len(RenderRegistry.assets)}
InstanceRefs == {2, Len(RenderRegistry.assets), usize_MAX}

\* The enumerations of a finite set: the orders in which a HashMap may hand
\* out its keys
RECURSIVE Orders(_)
Orders(S) ==
    IF S = {} THEN {<<>>}
    ELSE UNION {{<<x>> \o o : o \in Orders(S \ {x})} : x \in S}

\* component/mesh.rs: compile_material of one Mesh.  st is
\* [attribs, lookup_done, log].  The material is compiled when it is
\* registered (Material::new), so should_compile finds nothing to do.
compile_material(R, st, mesh) ==
    IF get_material_with_index(R, mesh.material)[1] = "None"
    THEN [st EXCEPT !.log = Append(@, <<"error", "compile", "material",
                                        mesh.material>>)]
    ELSE LET st1 ==
                 IF get_mesh_data_with_index(R, mesh.mesh_data)[1] = "Some"
                    /\ mesh.mesh_data \notin st.lookup_done
                 THEN [st EXCEPT
                          !.attribs = @ \cup {mesh.material},
                          !.lookup_done = @ \cup {mesh.mesh_data}]
                 ELSE st
         IN  IF get_material_instance_with_index(
                    R, mesh.material_instance)[1] = "Some"
             THEN st1
             ELSE [st1 EXCEPT !.log = Append(@,
                      <<"error", "compile", "material_instance",
                        mesh.material_instance>>)]

\* ShaderCompilationSystem::run: every Mesh, enabled or not
RECURSIVE compile_all(_, _, _, _)
compile_all(R, st, M, e) ==
    IF e > Len(M) THEN st
    ELSE compile_all(R, compile_material(R, st, M[e]), M, e + 1)

\* rendering_system.rs: one turn of the loop of lines 28-43, for entity e.
\* A leaf holds (material instance id, transform); the transform is the
\* entity's own and stands here as e.
group_replacing_material(sorted, e, mesh) ==
    insert(sorted, mesh.material,
           insert(<<>>, mesh.mesh_data,
                  << <<mesh.material_instance, e>> >>))

group_one(sorted, e, mesh) ==
    IF mesh.material \in DOMAIN sorted
    THEN IF mesh.mesh_data \in DOMAIN sorted[mesh.material]
         THEN [sorted EXCEPT ![mesh.material][mesh.mesh_data] =
                  Append(@, <<mesh.material_instance, e>>)]
         ELSE [sorted EXCEPT ![mesh.material] =
                  insert(@, mesh.mesh_data,
                         << <<mesh.material_instance, e>> >>)]
    ELSE insert(sorted, mesh.material,
                insert(<<>>, mesh.mesh_data,
                       << <<mesh.material_instance, e>> >>))

\* (&mesh, &transform, &enabled).join(), in the order of the entities
RECURSIVE group_all(_, _, _, _)
group_all(sorted, M, E, e) ==
    IF e > Len(M) THEN sorted
    ELSE group_all(IF e \in E THEN group_one(sorted, e, M[e]) ELSE sorted,
                   M, E, e + 1)

\* transforms.sort_by(|a, b| a.0.cmp(b.0)): stable, by instance id
RECURSIVE sort_by_instance(_)
sort_by_instance(v) ==
    IF v = <<>> THEN <<>>
    ELSE LET rest == sort_by_instance(SubSeq(v, 1, Len(v) - 1))
             x == v[Len(v)]
             below == SelectSeq(rest, LAMBDA y : y[1] <= x[1])
             above == SelectSeq(rest, LAMBDA y : y[1] > x[1])
         IN  below \o <<x>> \o above

\* renderer/mod.rs lines 163-184; current_mat_instance_id is bound once and
\* never assigned again
RECURSIVE draw_each(_, _, _, _)
draw_each(R, transform_vec, i, current_mat_instance_id) ==
    IF i > Len(transform_vec) THEN <<>>
    ELSE LET material_instance_id == transform_vec[i][1]
             transform == transform_vec[i][2]
             this ==
               IF material_instance_id # current_mat_instance_id
               THEN IF get_material_instance_with_index(
                           R, material_instance_id)[1] = "Some"
                    THEN << <<"instance_uniforms", material_instance_id>>,
                            <<"transform_uniform", transform>>,
                            <<"draw", transform>> >>
                    ELSE << <<"error", "material_instance",
                              material_instance_id>> >>
               ELSE <<>>
         IN  this \o draw_each(R, transform_vec, i + 1,
                               current_mat_instance_id)

\* material.get_attribute_location(name) for the buffers of a mesh data:
\* Some when the material has cached the locations
get_attribute_location(attribs, material) ==
    IF material \in attribs THEN <<"Some", material>> ELSE <<"None">>

\* The transforms of a group uploaded one after the other and the draw
\* calls issued after them
draw_after_uploads(R, attribs, mesh_data_id, material, transform_vec) ==
    LET sorted == sort_by_instance(transform_vec)
        drawn == SelectSeq(sorted, LAMBDA t :
                    /\ t[1] # usize_MAX
                    /\ get_material_instance_with_index(R, t[1])[1] = "Some")
    IN  IF get_mesh_data_with_index(R, mesh_data_id)[1] = "Some"
        THEN [i \in 1..Len(drawn) |-> <<"transform_uniform", drawn[i][2]>>]
             \o [i \in 1..Len(drawn) |-> <<"draw", drawn[i][2]>>]
        ELSE << <<"error", "mesh_data", mesh_data_id>> >>

draw_meshes_using_mesh_data(R, attribs, mesh_data_id, material, transform_vec) ==
    LET sorted == sort_by_instance(transform_vec)
    IN  IF get_mesh_data_with_index(R, mesh_data_id)[1] = "Some"
        THEN (IF get_attribute_location(attribs, material)[1] = "Some"
              THEN << <<"bind_attributes", mesh_data_id>> >>
              ELSE << <<"error", "locations", mesh_data_id>> >>)
             \o draw_each(R, sorted, 1, usize_MAX)
        ELSE << <<"error", "mesh_data", mesh_data_id>> >>

\* The loop of lines 130-132, the HashMap handing out its keys as `order`
RECURSIVE draw_mesh_data_groups(_, _, _, _, _, _)
draw_mesh_data_groups(R, attribs, material, mesh_hash_map, order, i) ==
    IF i > Len(order) THEN <<>>
    ELSE draw_meshes_using_mesh_data(R, attribs, order[i], material,
                                     mesh_hash_map[order[i]])
         \o draw_mesh_data_groups(R, attribs, material, mesh_hash_map,
                                  order, i + 1)

draw_meshes_using_material(R, attribs, material_id, mesh_hash_map, order) ==
    IF get_material_with_index(R, material_id)[1] = "Some"
    THEN << <<"use_program", material_id>>,
            <<"material_uniforms", material_id>>,
            <<"camera_uniforms", material_id>>,
            <<"lights_uniforms", material_id>> >>
         \o draw_mesh_data_groups(R, attribs, material_id, mesh_hash_map,
                                  order, 1)
    ELSE << <<"error", "material", material_id>> >>

\* render_objects: outer is the order of the materials, inner[m] the order
\* of the mesh data of material m
RECURSIVE render_groups(_, _, _, _, _, _)
render_groups(R, attribs, sorted, outer, inner, i) ==
    IF i > Len(outer) THEN <<>>
    ELSE draw_meshes_using_material(R, attribs, outer[i], sorted[outer[i]],
                                    inner[outer[i]])
         \o render_groups(R, attribs, sorted, outer, inner, i + 1)

render_objects(R, attribs, sorted, outer, inner) ==
    << <<"clear">> >> \o render_groups(R, attribs, sorted, outer, inner, 1)

MeshEntities == 1..Len(rMesh)

RenderInit ==
    /\ rMesh = <<>>
    /\ rEnabled = {}
    /\ rAttribs = {}
    /\ rLookupDone = {}
    /\ rPhase = "idle"
    /\ rGroups = <<>>
    /\ rLog = <<>>

\* The host adds an entity with a Mesh and a Transform, enabled or not.
CreateMesh(mesh, on) ==
    /\ rPhase = "idle"
    /\ Len(rMesh) < MaxMeshes
    /\ rMesh' = Append(rMesh, mesh)
    /\ rEnabled' = IF on THEN rEnabled \cup {Len(rMesh) + 1} ELSE rEnabled
    /\ rGroups' = <<>>
    /\ rLog' = <<>>
    /\ UNCHANGED <<rAttribs, rLookupDone, rPhase, notRenderVars>>

\* The host inserts or removes the Enabled of a mesh entity.
SetMeshEnabled(e, on) ==
    /\ rPhase = "idle"
    /\ e \in MeshEntities
    /\ (e \in rEnabled) # on
    /\ rEnabled' = IF on THEN rEnabled \cup {e} ELSE rEnabled \ {e}
    /\ rGroups' = <<>>
    /\ rLog' = <<>>
    /\ UNCHANGED <<rMesh, rAttribs, rLookupDone, rPhase, notRenderVars>>

\* The frame begins: the shader compilation pass
ShaderCompilationSystem_run ==
    /\ rPhase = "idle"
    /\ rMesh # <<>>
    /\ LET st == compile_all(TheRegistry,
                     [attribs |-> rAttribs, lookup_done |-> rLookupDone,
                      log |-> <<>>], rMesh, 1)
       IN  /\ rAttribs' = st.attribs
           /\ rLookupDone' = st.lookup_done
           /\ rLog' = st.log
    /\ rPhase' = "compiled"
    /\ rGroups' = <<>>
    /\ UNCHANGED <<rMesh, rEnabled, notRenderVars>>

\* The frame ends: the rendering pass
RenderingSystem_run ==
    /\ rPhase = "compiled"
    /\ LET sorted == group_all(<<>>, rMesh, rEnabled, 1)
       IN  \E outer \in Orders(DOMAIN sorted) :
           \E inner \in [DOMAIN sorted ->
                            UNION {Orders(DOMAIN sorted[m]) :
                                      m \in DOMAIN sorted}] :
              /\ \A m \in DOMAIN sorted :
                    inner[m] \in Orders(DOMAIN sorted[m])
              /\ rGroups' = sorted
              /\ rLog' = rLog \o render_objects(TheRegistry, rAttribs,
                                                sorted, outer, inner)
    /\ rPhase' = "idle"
    /\ UNCHANGED <<rMesh, rEnabled, rAttribs, rLookupDone, notRenderVars>>

\* A registry with two materials, a mesh data and an instance of each
\* material, registered in this order
OpacityRegistry ==
    LET r1 == register_material(AssetRegistry_new,
                 [file |-> "MaterialFile", id |-> "a",
                  compiles |-> TRUE]).registry
        r2 == register_material(r1,
                 [file |-> "MaterialFile", id |-> "b",
                  compiles |-> TRUE]).registry
        r3 == register_mesh_data(r2,
                 [file |-> "MeshFile", id |-> "c"]).registry
        r4 == register_material_instance(r3,
                 [file |-> "MaterialInstanceFile", id |-> "ia",
                  parent_id |-> "a"]).registry
    IN  register_material_instance(r4,
            [file |-> "MaterialInstanceFile", id |-> "ib",
             parent_id |-> "b"]).registry

\* The meshes over it: the mesh data with the one or the other material
\* and its instance
OpacityMeshes == {Mesh_new(2, 3, 0), Mesh_new(2, 4, 1)}

\* The host calls set_transparent on a registered material between frames.
SetTransparent(material_id, transparent) ==
    /\ rPhase = "idle"
    /\ get_material_with_index(TheRegistry, material_id)[1] = "Some"
    /\ assets' = [assets EXCEPT
                    ![material_id + 1] = set_transparent(@, transparent)]
    /\ rGroups' = <<>>
    /\ rLog' = <<>>
    /\ UNCHANGED <<index, aOp, rMesh, rEnabled, rAttribs, rLookupDone,
                   rPhase, sceneVars, graphVars, lightVars, moreVars,
                   lateVars>>

OpacityNext ==
    \/ \E material_id \in {0, 1}, transparent \in BOOLEAN :
          SetTransparent(material_id, transparent)
    \/ \E mesh \in OpacityMeshes, on \in BOOLEAN : CreateMesh(mesh, on)
    \/ ShaderCompilationSystem_run
    \/ RenderingSystem_run

RenderNext ==
    \/ \E d \in MeshDataRefs, i \in InstanceRefs, m \in MaterialRefs,
          on \in BOOLEAN : CreateMesh(Mesh_new(d, i, m), on)
    \/ \E e \in MeshEntities, on \in BOOLEAN : SetMeshEnabled(e, on)
    \/ ShaderCompilationSystem_run
    \/ RenderingSystem_run

\* ------------------------------------------------------------------------
\* component/light.rs, renderer/light_repository.rs and
\* system/lighting_system.rs: the lighting pass
\* ------------------------------------------------------------------------
\* Vector3<f32> as a triple; the values of the model are small integers,
\* which f32 adds and multiplies exactly
Vector3_new(x, y, z) == <<x, y, z>>

\* Vector3 * f32
scaled(v, k) == <<v[1] * k, v[2] * k, v[3] * k>>

\* Vector3 + Vector3
plus(v, w) == <<v[1] + w[1], v[2] + w[2], v[3] + w[3]>>

Light(color, intensity, attenuation) ==
    [color |-> color, intensity |-> intensity, attenuation |-> attenuation]

\* The lights the host creates
LightValues ==
    {Light(Vector3_new(1, 0, 0), 2, 0), Light(Vector3_new(0, 1, 0), 1, 0)}

\* #[derive(Default)] LightRepository
LightRepository_default ==
    [ambiant |-> <<"None">>, directional |-> <<>>, point |-> <<>>,
     spot |-> <<>>]

\* #[derive(Default)] LightConfiguration
LightConfiguration_default == [directional |-> 0, point |-> 0, spot |-> 0]

keep_repository(R) == R

\* Lines 34-37
clear_repository(R) ==
    [R EXCEPT !.ambiant = <<"None">>, !.directional = <<>>,
              !.point = <<>>, !.spot = <<>>]

\* Lines 72-73
merge_ambiant(ambiant, light) ==
    [ambiant EXCEPT
        !.color = plus(scaled(ambiant.color, ambiant.intensity),
                       scaled(light.color, light.intensity)),
        !.intensity = ambiant.intensity + light.intensity]

\* One turn of the loop of lines 44-75, for entity e.  st is
\* [repo, ambiant, some_ambiant]; a component an entity does not carry is
\* None.  An entry of a list carries, as `of`, the entity it was made for.
visit_light(st, e, l) ==
    IF l.direction # None /\ l.cone = None
    THEN [st EXCEPT !.repo.directional =
             Append(@, [light |-> l.light, direction |-> l.direction,
                        of |-> e])]
    ELSE IF l.transform # None /\ l.cone = None /\ l.direction = None
    THEN [st EXCEPT !.repo.point =
             Append(@, [light |-> l.light, position |-> l.transform,
                        of |-> e])]
    ELSE IF l.direction # None /\ l.cone # None /\ l.transform # None
    THEN [st EXCEPT !.repo.spot =
             Append(@, [light |-> l.light, position |-> l.transform,
                        direction |-> l.direction, cone |-> l.cone,
                        of |-> e])]
    ELSE IF l.transform = None /\ l.cone = None /\ l.direction = None
    THEN [st EXCEPT !.some_ambiant = TRUE,
                    !.ambiant = merge_ambiant(@, l.light)]
    ELSE st

\* (&entities, &lights, &enableds).join(), in the order of the entities
RECURSIVE visit_lights(_, _, _, _)
visit_lights(st, L, E, e) ==
    IF e > Len(L) THEN st
    ELSE visit_lights(IF e \in E THEN visit_light(st, e, L[e]) ELSE st,
                      L, E, e + 1)

\* LightingSystem::run: the repository and the configuration it leaves
LightingSystem_pass(R, L, E) ==
    LET st == visit_lights(
                  [repo |-> clear_repository(R),
                   ambiant |-> Light(Vector3_new(0, 0, 0), 0, 0),
                   some_ambiant |-> FALSE], L, E, 1)
        repo == IF st.some_ambiant
                THEN [st.repo EXCEPT !.ambiant = <<"Some", st.ambiant>>]
                ELSE st.repo
    IN  [repository |-> repo,
         configuration |-> [directional |-> Len(repo.directional),
                            point |-> Len(repo.point),
                            spot |-> Len(repo.spot)]]

LightEntities == 1..Len(lLights)

\* The entities a list of the repository was made for
Of(list) == {list[i].of : i \in 1..Len(list)}

\* An enabled light that carries none of Direction, Cone and Transform
IsAmbient(e) ==
    /\ lLights[e].direction = None
    /\ lLights[e].cone = None
    /\ lLights[e].transform = None

LightInit ==
    /\ lLights = <<>>
    /\ lEnabled = {}
    /\ light_repository = LightRepository_default
    /\ light_configuration = LightConfiguration_default
    /\ lStale = FALSE

\* The host adds an enabled entity with a Light and any of Direction, Cone
\* and Transform.
CreateLight(light, direction, cone, transform) ==
    /\ Len(lLights) < MaxLights
    /\ lLights' = Append(lLights, [light |-> light, direction |-> direction,
                                   cone |-> cone, transform |-> transform])
    /\ lEnabled' = lEnabled \cup {Len(lLights) + 1}
    /\ UNCHANGED <<light_repository, light_configuration, lStale,
                   notLightVars>>

\* The host inserts or removes the Enabled of a light entity.
SetLightEnabled(e, on) ==
    /\ e \in LightEntities
    /\ (e \in lEnabled) # on
    /\ lEnabled' = IF on THEN lEnabled \cup {e} ELSE lEnabled \ {e}
    /\ UNCHANGED <<lLights, light_repository, light_configuration, lStale,
                   notLightVars>>

LightingSystem_run ==
    /\ LET r == LightingSystem_pass(light_repository, lLights, lEnabled)
       IN  /\ light_repository' = r.repository
           /\ light_configuration' = r.configuration
    /\ lStale' =
          /\ (Of(light_repository.directional)
                 \cup Of(light_repository.point)
                 \cup Of(light_repository.spot)) \ lEnabled # {}
          /\ light_repository.ambiant[1] = "Some"
          /\ ~\E e \in lEnabled : IsAmbient(e)
    /\ UNCHANGED <<lLights, lEnabled, notLightVars>>

LightNext ==
    \/ \E light \in LightValues, direction, cone, transform \in {None, 1} :
          CreateLight(light, direction, cone, transform)
    \/ \E e \in LightEntities, on \in BOOLEAN : SetLightEnabled(e, on)
    \/ LightingSystem_run

\* ------------------------------------------------------------------------
\* renderer/uniform.rs, renderer/material.rs: the uniforms of a Material
\* and of a MaterialInstance of it
\* ------------------------------------------------------------------------
\* The uniform names of the shaders
Names == {"u_color", "u_map"}

\* Box<dyn UniformValue>: an f32, a (ShaderDataType, Vec<f32>) and a
\* texture; v tells two values of a kind apart.
UniformValues ==
    {[kind |-> "f32", v |-> 0], [kind |-> "f32", v |-> 1],
     [kind |-> "array", type |-> "Vector3", v |-> 0],
     [kind |-> "array", type |-> "Sampler2D", v |-> 0],
     [kind |-> "texture", v |-> 0]}

\* Uniform::new
Uniform_new(name, value) ==
    [name |-> name, location |-> <<"None">>, value |-> value,
     texture_index |-> <<"None">>]

\* Uniform::set_texture_index
set_texture_index(uniform, i) ==
    [uniform EXCEPT !.texture_index = <<"Some", i>>]

\* The uniforms the host hands over: new ones, the textures also with
\* their texture index set
UniformsOf(name) ==
    {Uniform_new(name, value) : value \in UniformValues}
        \cup {set_texture_index(Uniform_new(name, value), 0) :
                 value \in {w \in UniformValues : w.kind = "texture"}}

\* get_texture_pointer: the texture unit TEXTURE<k> as <<"TEXTURE", k>>
get_texture_pointer(texture_number) ==
    IF texture_number \in 0..7 THEN <<"TEXTURE", texture_number>>
    ELSE <<"TEXTURE", 8>>

bind_default_unit(value, location, texture_number) ==
    CASE value.kind = "f32" -> <<"Ok", <<"uniform1fv", location, value.v>>>>
      [] value.kind = "texture" ->
            LET number == IF texture_number = <<"None">> THEN 0
                          ELSE texture_number[2]
            IN  <<"Ok", <<"bind_texture", get_texture_pointer(number),
                          location, number>>>>
      [] value.kind = "array" ->
            IF value.type \in {"Single", "Vector2", "Vector3", "Vector4",
                               "Matrix2", "Matrix3", "Matrix4"}
            THEN <<"Ok", <<"uniformfv", location, value.v>>>>
            ELSE <<"Err", "Invalid value supplied to uniform">>

\* UniformValue::set_to_context_at_location of uniform.rs:153-262: the GL
\* call made, or the error.  The calls of a texture, active_texture(unit),
\* bind_texture, tex_parameteri twice and uniform1i(location, number), are
\* the one entry <<"bind_texture", unit, location, number>>.
set_to_context_at_location(value, location, texture_number) ==
    CASE value.kind = "f32" -> <<"Ok", <<"uniform1fv", location, value.v>>>>
      [] value.kind = "texture" ->
            IF texture_number = <<"None">>
            THEN <<"Err",
                   "You must provide a texture number for Texture uniforms">>
            ELSE <<"Ok", <<"bind_texture",
                          get_texture_pointer(texture_number[2]),
                          location, texture_number[2]>>>>
      [] value.kind = "array" ->
            IF value.type \in {"Single", "Vector2", "Vector3", "Vector4",
                               "Matrix2", "Matrix3", "Matrix4"}
            THEN <<"Ok", <<"uniformfv", location, value.v>>>>
            ELSE <<"Err", "Invalid value supplied to uniform">>

\* Uniform::set_to_context
set_to_context(uniform) ==
    LET result == set_to_context_at_location(
                      uniform.value, uniform.location, uniform.texture_index)
    IN  IF result[1] = "Err" THEN <<"Err", "Uniform couldn't be set">>
        ELSE result

\* The loop of set_uniforms_to_context over the names in the order the
\* map yields them; st is [log, result], result <<>> while the loop runs.
\* An entry of the log carries, as `of`, the name of its uniform.
RECURSIVE stop_at_first_failure(_, _, _)
stop_at_first_failure(map, order, st) ==
    IF order = <<>> THEN [st EXCEPT !.result = <<"Ok">>]
    ELSE LET r == set_to_context(map[Head(order)])
         IN  IF r[1] = "Err" THEN [st EXCEPT !.result = r]
             ELSE stop_at_first_failure(map, Tail(order),
                      [st EXCEPT !.log =
                          Append(@, [of |-> Head(order), call |-> r[2]])])

RECURSIVE set_uniforms_to_context(_, _, _)
set_uniforms_to_context(map, order, st) ==
    IF order = <<>> THEN [st EXCEPT !.result = <<"Ok">>]
    ELSE LET r == set_to_context(map[Head(order)])
         IN  set_uniforms_to_context(map, Tail(order),
                 [st EXCEPT !.log =
                     Append(@, [of |-> Head(order),
                                call |-> IF r[1] = "Err"
                                         THEN <<"console_warn", r[2]>>
                                         ELSE r[2]])])

\* Material::set_uniform
Material_set_uniform(shared, uniform_to_set) ==
    insert(shared, uniform_to_set.name, uniform_to_set)

\* MaterialInstance::set_uniform; M is [shared_uniforms, uniforms], the
\* parent's map and the instance's
MaterialInstance_set_uniform(M, uniform_to_set) ==
    [M EXCEPT !.uniforms = insert(@, uniform_to_set.name, uniform_to_set)]

\* MaterialInstance::set_parent_uniform
MaterialInstance_set_parent_uniform(M, uniform_to_set) ==
    [M EXCEPT !.shared_uniforms = Material_set_uniform(@, uniform_to_set)]

TheMaterials == [shared_uniforms |-> shared_uniforms, uniforms |-> uniforms]

\* Material::new and MaterialInstance::new: both maps are empty
UniformInit ==
    /\ shared_uniforms = <<>>
    /\ uniforms = <<>>
    /\ uLog = [log |-> <<>>, result |-> <<>>]
    /\ uOp = [name |-> "new"]

SetUniform(uniform) ==
    /\ shared_uniforms' = Material_set_uniform(shared_uniforms, uniform)
    /\ uOp' = [name |-> "Material::set_uniform", uniform |-> uniform]
    /\ uLog' = [log |-> <<>>, result |-> <<>>]
    /\ UNCHANGED <<uniforms, notUniformVars>>

InstanceSetUniform(uniform) ==
    /\ LET M == MaterialInstance_set_uniform(TheMaterials, uniform)
       IN  /\ shared_uniforms' = M.shared_uniforms
           /\ uniforms' = M.uniforms
    /\ uOp' = [name |-> "MaterialInstance::set_uniform", uniform |-> uniform]
    /\ uLog' = [log |-> <<>>, result |-> <<>>]
    /\ UNCHANGED notUniformVars

InstanceSetParentUniform(uniform) ==
    /\ LET M == MaterialInstance_set_parent_uniform(TheMaterials, uniform)
       IN  /\ shared_uniforms' = M.shared_uniforms
           /\ uniforms' = M.uniforms
    /\ uOp' = [name |-> "MaterialInstance::set_parent_uniform",
               uniform |-> uniform]
    /\ uLog' = [log |-> <<>>, result |-> <<>>]
    /\ UNCHANGED notUniformVars

\* Material::set_uniforms_to_context, the map iterated in any order
SetUniformsToContext ==
    /\ \E order \in Orders(DOMAIN shared_uniforms) :
          uLog' = set_uniforms_to_context(shared_uniforms, order,
                                          [log |-> <<>>, result |-> <<>>])
    /\ uOp' = [name |-> "Material::set_uniforms_to_context"]
    /\ UNCHANGED <<shared_uniforms, uniforms, notUniformVars>>

\* MaterialInstance::set_uniforms_to_context
InstanceSetUniformsToContext ==
    /\ \E order \in Orders(DOMAIN uniforms) :
          uLog' = set_uniforms_to_context(uniforms, order,
                                          [log |-> <<>>, result |-> <<>>])
    /\ uOp' = [name |-> "MaterialInstance::set_uniforms_to_context"]
    /\ UNCHANGED <<shared_uniforms, uniforms, notUniformVars>>

\* The largest texture index the host assigns
MaxTextureIndex == 9

\* The texture uniforms the host hands over: without a texture index and
\* with each index up to MaxTextureIndex
TextureUniforms(name) ==
    LET u == Uniform_new(name, [kind |-> "texture", v |-> 0])
    IN  {u} \cup {set_texture_index(u, n) : n \in 0..MaxTextureIndex}

\* Uniform::set_to_context on the uniform `name` of the Material
UniformSetToContext(name) ==
    /\ name \in DOMAIN shared_uniforms
    /\ LET r == set_to_context(shared_uniforms[name])
       IN  uLog' = [log |-> [k \in 1..Len(ok_call(r)) |->
                               [of |-> name, call |-> ok_call(r)[k]]],
                    result |-> IF r[1] = "Ok" THEN <<"Ok">> ELSE r]
    /\ uOp' = [name |-> "Uniform::set_to_context", of |-> name]
    /\ UNCHANGED <<shared_uniforms, uniforms, notUniformVars>>

TextureNext ==
    \/ \E name \in Names : \E uniform \in TextureUniforms(name) :
          SetUniform(uniform)
    \/ \E name \in Names : UniformSetToContext(name)
    \/ SetUniformsToContext

UniformNext ==
    \/ \E name \in Names : \E uniform \in UniformsOf(name) :
          SetUniform(uniform)
    \/ \E name \in Names : \E uniform \in UniformsOf(name) :
          InstanceSetUniform(uniform)
    \/ \E name \in Names : \E uniform \in UniformsOf(name) :
          InstanceSetParentUniform(uniform)
    \/ SetUniformsToContext
    \/ InstanceSetUniformsToContext

\* ------------------------------------------------------------------------
\* renderer/uniform.rs, renderer/material.rs: the cached locations of a
\* Material.  A name is a tuple: <<"u_view_matrix">> is the uniform of
\* that name, <<"u_dir_lights", 0, "color">> is "u_dir_lights[0].color".
\* ------------------------------------------------------------------------
MAX_NUMBER_OF_LIGHTS == 8

VIEW_MATRIX_NAME == <<"u_view_matrix">>
PROJECTION_MATRIX_NAME == <<"u_projection_matrix">>
WORLD_TRANSFORM_NAME == <<"u_world_transform">>
AMBIANT_LIGHT_NAME == <<"u_ambiant_light">>
POINT_LIGHTS_NAME == "u_point_lights"
DIRECTIONAL_LIGHTS_NAME == "u_dir_lights"
LightFields == {"color", "intensity", "attenuation", "position_or_direction"}

\* The numbers of directional and of point lights a LightConfiguration
\* of the host carries
LightCounts == {0, 1}

\* format!("{}[{}].{}", light_type, i, field) of lookup_field_location
uniform_name(light_type, i, field) == <<light_type, i, field>>

\* The names of the attributes of the BufferConfig and of its Uniform
AttributeNames == {<<"a_position">>, <<"a_normal">>, <<"a_weights">>}
UniformName == <<"u_color">>

GlobalNames ==
    {VIEW_MATRIX_NAME, PROJECTION_MATRIX_NAME, WORLD_TRANSFORM_NAME,
     AMBIANT_LIGHT_NAME}
LightNames ==
    {uniform_name(t, i, f) :
        t \in {POINT_LIGHTS_NAME, DIRECTIONAL_LIGHTS_NAME},
        i \in LightCounts, f \in LightFields}
AllNames == GlobalNames \cup LightNames \cup AttributeNames \cup {UniformName}

\* The programs the host links: every name is active, or the lights are
\* left out (an unlit shader), or the uniform and the weights are, or both.
Programs ==
    {AllNames,
     AllNames \ (LightNames \cup {AMBIANT_LIGHT_NAME}),
     AllNames \ {UniformName, <<"a_weights">>},
     AllNames \ (LightNames \cup {AMBIANT_LIGHT_NAME, UniformName,
                                  <<"a_weights">>})}

\* context.get_uniform_location(program, name): the location and the
\* context's count of queries.  Q is [program, queries].
get_uniform_location(Q, name) ==
    [location |-> IF name \in Q.program THEN <<"Some", name>>
                  ELSE <<"None">>,
     Q |-> [Q EXCEPT !.queries[name] = @ + 1]]

\* context.get_attrib_location(program, name): -1 for an inactive name
get_attrib_location(Q, name) ==
    [location |-> IF name \in Q.program THEN name ELSE -1,
     Q |-> [Q EXCEPT !.queries[name] = @ + 1]]

\* One `if self.<field> == None { self.<field> = lookup }` of uniform.rs:
\* st is [locations, Q], locations a record or function with the field.
lookup_if_none(st, field, name) ==
    IF st.locations[field] = <<"None">>
    THEN LET r == get_uniform_location(st.Q, name)
         IN  [locations |-> [st.locations EXCEPT ![field] = r.location],
              Q |-> r.Q]
    ELSE st

\* Uniform::lookup_location
Uniform_lookup_location(u, Q) ==
    LET st == lookup_if_none([locations |-> u, Q |-> Q], "location", u.name)
    IN  [uniform |-> st.locations, Q |-> st.Q]

\* LightUniformLocations::new
LightUniformLocations_new ==
    [color |-> <<"None">>, intensity |-> <<"None">>,
     attenuation |-> <<"None">>, position_or_direction |-> <<"None">>]

\* LightUniformLocations::lookup_locations
LightUniformLocations_lookup_locations(L, light_type, light_index, Q) ==
    LET s1 == lookup_if_none([locations |-> L, Q |-> Q], "color",
                  uniform_name(light_type, light_index, "color"))
        s2 == lookup_if_none(s1, "intensity",
                  uniform_name(light_type, light_index, "intensity"))
        s3 == lookup_if_none(s2, "attenuation",
                  uniform_name(light_type, light_index, "attenuation"))
    IN  lookup_if_none(s3, "position_or_direction",
            uniform_name(light_type, light_index, "position_or_direction"))

\* GlobalUniformLocations::new
GlobalUniformLocations_new ==
    [view_matrix_location |-> <<"None">>,
     projection_matrix_location |-> <<"None">>,
     world_transform_location |-> <<"None">>,
     ambiant_light_location |-> <<"None">>,
     point_lights_number_location |-> <<"None">>,
     directional_lights_number_location |-> <<"None">>,
     point_lights_locations |->
         [i \in 0..(MAX_NUMBER_OF_LIGHTS - 1) |-> LightUniformLocations_new],
     directional_lights_locations |->
         [i \in 0..(MAX_NUMBER_OF_LIGHTS - 1) |-> LightUniformLocations_new]]

\* The loops `for i in 0..light_config.<kind>` of lines 557-573; st is
\* [locations, Q], locations the GlobalUniformLocations
RECURSIVE lookup_lights(_, _, _, _, _)
lookup_lights(st, field, light_type, i, n) ==
    IF i >= n THEN st
    ELSE LET r == LightUniformLocations_lookup_locations(
                      st.locations[field][i], light_type, i, st.Q)
         IN  lookup_lights(
                 [locations |-> [st.locations EXCEPT ![field][i] = r.locations],
                  Q |-> r.Q],
                 field, light_type, i + 1, n)

\* GlobalUniformLocations::lookup_locations
GlobalUniformLocations_lookup_locations(G, Q, light_config) ==
    LET s1 == lookup_if_none([locations |-> G, Q |-> Q],
                  "view_matrix_location", VIEW_MATRIX_NAME)
        s2 == lookup_if_none(s1, "projection_matrix_location",
                  PROJECTION_MATRIX_NAME)
        s3 == lookup_if_none(s2, "world_transform_location",
                  WORLD_TRANSFORM_NAME)
        s4 == lookup_if_none(s3, "ambiant_light_location",
                  AMBIANT_LIGHT_NAME)
        s5 == lookup_lights(s4, "directional_lights_locations",
                  DIRECTIONAL_LIGHTS_NAME, 0, light_config.directional)
    IN  lookup_lights(s5, "point_lights_locations", POINT_LIGHTS_NAME, 0,
                      light_config.point)

\* BufferConfig::new, then the names the host sets
BufferConfig_new ==
    [vertex_name |-> <<"None">>, normals_name |-> <<"None">>,
     weights_name |-> <<"None">>, vertex_location |-> <<"None">>,
     normals_location |-> <<"None">>, weights_location |-> <<"None">>,
     locations_ready |-> FALSE]

\* BufferConfig::lookup_locations
BufferConfig_lookup_locations(B, Q) ==
    IF B.locations_ready THEN [buffer_config |-> B, Q |-> Q]
    ELSE LET r1 == IF B.vertex_name # <<"None">>
                   THEN get_attrib_location(Q, B.vertex_name[2])
                   ELSE [location |-> None, Q |-> Q]
             r2 == IF B.weights_name # <<"None">>
                   THEN get_attrib_location(r1.Q, B.weights_name[2])
                   ELSE [location |-> None, Q |-> r1.Q]
             r3 == IF B.weights_name # <<"None">>
                   THEN get_attrib_location(r2.Q, B.weights_name[2])
                   ELSE [location |-> None, Q |-> r2.Q]
         IN  [buffer_config |->
                  [B EXCEPT
                     !.vertex_location =
                        IF B.vertex_name # <<"None">>
                        THEN <<"Some", r1.location>> ELSE @,
                     !.weights_location =
                        IF B.weights_name # <<"None">>
                        THEN <<"Some", r2.location>> ELSE @,
                     !.normals_location =
                        IF B.weights_name # <<"None">>
                        THEN <<"Some", r3.location>> ELSE @,
                     !.locations_ready = TRUE],
              Q |-> r3.Q]

TheContext == [program |-> in_program, queries |-> queries]

\* The most queries of one name the context is asked
MaxQueries == 3

Asked(Q) == \A name \in AllNames : Q.queries[name] <= MaxQueries

\* A Material with its program linked, one Uniform with no location yet
\* and a BufferConfig whose three names, or only the first two, are set
LocationInit ==
    /\ in_program \in Programs
    /\ qUniform = Uniform_new(UniformName, [kind |-> "f32", v |-> 0])
    /\ global_uniform_locations = GlobalUniformLocations_new
    /\ buffer_config \in
          {[BufferConfig_new EXCEPT
               !.vertex_name = <<"Some", <<"a_position">>>>,
               !.normals_name = <<"Some", <<"a_normal">>>>,
               !.weights_name = w] :
              w \in {<<"None">>, <<"Some", <<"a_weights">>>>}}
    /\ queries = [name \in AllNames |-> 0]
    /\ qOp = [name |-> "new", args |-> <<>>, before |-> queries]

LookupUniformLocation ==
    /\ LET r == Uniform_lookup_location(qUniform, TheContext)
       IN  /\ Asked(r.Q)
           /\ qUniform' = r.uniform
           /\ queries' = r.Q.queries
    /\ qOp' = [name |-> "Uniform::lookup_location", args |-> <<>>,
               before |-> queries]
    /\ UNCHANGED <<in_program, global_uniform_locations, buffer_config,
                   notLocationVars>>

LookupGlobalLocations(light_config) ==
    /\ LET r == GlobalUniformLocations_lookup_locations(
                    global_uniform_locations, TheContext, light_config)
       IN  /\ Asked(r.Q)
           /\ global_uniform_locations' = r.locations
           /\ queries' = r.Q.queries
    /\ qOp' = [name |-> "GlobalUniformLocations::lookup_locations",
               args |-> <<light_config>>, before |-> queries]
    /\ UNCHANGED <<in_program, qUniform, buffer_config, notLocationVars>>

LookupBufferLocations ==
    /\ LET r == BufferConfig_lookup_locations(buffer_config, TheContext)
       IN  /\ Asked(r.Q)
           /\ buffer_config' = r.buffer_config
           /\ queries' = r.Q.queries
    /\ qOp' = [name |-> "BufferConfig::lookup_locations", args |-> <<>>,
               before |-> queries]
    /\ UNCHANGED <<in_program, qUniform, global_uniform_locations,
                   notLocationVars>>

LocationNext ==
    \/ LookupUniformLocation
    \/ \E d, p \in LightCounts :
          LookupGlobalLocations([directional |-> d, point |-> p, spot |-> 0])
    \/ LookupBufferLocations

\* ------------------------------------------------------------------------
\* asset/material.rs: the program of a Material, and the shader
\* compilation pass of component/mesh.rs over it
\* ------------------------------------------------------------------------
\* The shader texts of the host: one that compiles, one that does not, and
\* a fragment shader that compiles but does not link with the vertex one
VertexShaders == {"compiles", "fails"}
FragmentShaders == {"compiles", "fails", "does not link"}

\* The most programs the context is asked to link
MaxPrograms == 3

\* Material::new of asset/material.rs: no program yet, both shader texts
\* kept; locations_found tells whether the program has every declared
\* attribute and uniform
Material_new(vertex_shader, fragment_shader, lit, transparent, found) ==
    [program |-> <<"None">>,
     vertex_shader |-> <<"Some", vertex_shader>>,
     fragment_shader |-> <<"Some", fragment_shader>>,
     lit |-> lit,
     transparent |-> transparent,
     locations_found |-> found,
     light_configuration |-> LightConfiguration_default]

\* Material::compile_shader
compile_shader(shader_text) ==
    IF shader_text = "fails" THEN <<"Err", "Compilation failed for shader">>
    ELSE <<"Ok", shader_text>>

\* Material::link_program; linked is the number of programs the context
\* has linked, the new program is named by it
link_program(v_shader, f_shader, linked) ==
    IF f_shader = "does not link"
    THEN <<"Err", "Linking failed for WebGLProgram">>
    ELSE <<"Ok", linked + 1>>

\* Material::get_locations
get_locations(m) ==
    IF m.program = <<"None">>
    THEN <<"Err", "Trying to get attribute location without program">>
    ELSE IF m.locations_found THEN <<"Ok">>
    ELSE <<"Err", "Attribute Location was not found">>

\* Material::is_constructed
is_constructed(m) == m.program # <<"None">>

\* impl Constructible for Material: construct
construct(m, linked, clean_up) ==
    IF m.vertex_shader # <<"None">> /\ m.fragment_shader # <<"None">>
    THEN LET v_shader == compile_shader(m.vertex_shader[2])
             f_shader == compile_shader(m.fragment_shader[2])
             program == link_program(v_shader[2], f_shader[2], linked)
             same == [material |-> m, linked |-> linked]
         IN  IF v_shader[1] = "Err" THEN same @@ [result |-> v_shader]
             ELSE IF f_shader[1] = "Err" THEN same @@ [result |-> f_shader]
             ELSE IF program[1] = "Err" THEN same @@ [result |-> program]
             ELSE LET m1 == [m EXCEPT !.program = <<"Some", program[2]>>]
                      located == get_locations(m1)
                  IN  IF located[1] = "Err"
                      THEN [material |-> m1, linked |-> program[2],
                            result |-> located]
                      ELSE [material |->
                                IF clean_up
                                THEN [m1 EXCEPT
                                        !.vertex_shader = <<"None">>,
                                        !.fragment_shader = <<"None">>]
                                ELSE m1,
                            linked |-> program[2],
                            result |-> <<"Ok">>]
    ELSE [material |-> m, linked |-> linked,
          result |-> <<"Err", "Missing shader for material">>]

\* Material::should_compile: a material without a program is to compile
should_compile(m, light_config) == ~is_constructed(m)

\* Material::compile: the construction, the shader texts dropped
compile(m, linked, light_config) == construct(m, linked, TRUE)

\* Mesh::compile_material, lines 51-63: the part on the material
compile_material_program(m, linked, light_config) ==
    LET r == IF should_compile(m, light_config)
             THEN compile(m, linked, light_config)
             ELSE [material |-> m, linked |-> linked, result |-> <<"Ok">>]
    IN  IF r.result[1] = "Err" THEN r
        ELSE [r EXCEPT !.material.light_configuration = light_config]

ProgramInit ==
    /\ pMaterial \in {Material_new(v, f, lit, transparent, found) :
                         v \in VertexShaders, f \in FragmentShaders,
                         lit \in BOOLEAN, transparent \in BOOLEAN,
                         found \in BOOLEAN}
    /\ programs_linked = 0
    /\ pOp = [name |-> "new", result |-> <<"Ok">>]

Construct(clean_up) ==
    /\ programs_linked < MaxPrograms
    /\ LET r == construct(pMaterial, programs_linked, clean_up)
       IN  /\ pMaterial' = r.material
           /\ programs_linked' = r.linked
           /\ pOp' = [name |-> "construct", result |-> r.result]
    /\ UNCHANGED notProgramVars

CompileMaterial(light_config) ==
    /\ programs_linked < MaxPrograms
    /\ LET r == compile_material_program(pMaterial, programs_linked,
                                         light_config)
       IN  /\ pMaterial' = r.material
           /\ programs_linked' = r.linked
           /\ pOp' = [name |-> "compile_material", result |-> r.result]
    /\ UNCHANGED notProgramVars

ProgramNext ==
    \/ \E clean_up \in BOOLEAN : Construct(clean_up)
    \/ \E d, p \in LightCounts :
          CompileMaterial([directional |-> d, point |-> p, spot |-> 0])

\* ------------------------------------------------------------------------
\* renderer/light_repository.rs, renderer/uniform.rs: the light uniforms
\* of one Material, looked up and uploaded frame after frame
\* ------------------------------------------------------------------------
\* The most lights of a kind the host enables
MaxUploadLights == 9

\* The numbers of lights of a kind in the scenes of the host
UploadCounts == {0, 1, MaxUploadLights - 1, MaxUploadLights}

\* The scene of the host: nd lights with a Direction, then np lights with
\* a Transform, no two of the same intensity
LightList(nd, np) ==
    [e \in 1..(nd + np) |->
        [light |-> Light(Vector3_new(1, 0, 0), e, 0),
         direction |-> IF e <= nd THEN e ELSE None,
         cone |-> None,
         transform |-> IF e <= nd THEN None ELSE e]]

\* A lit shader: the globals and the two arrays of MAX_NUMBER_OF_LIGHTS
LitProgram ==
    GlobalNames
        \cup {uniform_name(t, i, f) :
                 t \in {POINT_LIGHTS_NAME, DIRECTIONAL_LIGHTS_NAME},
                 i \in 0..(MAX_NUMBER_OF_LIGHTS - 1), f \in LightFields}

\* Uniform::new_with_location
Uniform_new_with_location(name, location, value) ==
    [name |-> name, location |-> location, value |-> value,
     texture_index |-> <<"None">>]

\* array[index] of a fixed-size array: an at_index past the end panics
index_panics(array, at_index) == at_index \notin DOMAIN array

\* The indexing of uniform.rs:558 and 567 in the loops over the counts of
\* the LightConfiguration
lookup_locations_panics(G, light_config) ==
    \/ \E i \in 0..(light_config.directional - 1) :
          index_panics(G.directional_lights_locations, i)
    \/ \E i \in 0..(light_config.point - 1) :
          index_panics(G.point_lights_locations, i)

\* LightRepository::set_light_uniform: the GL calls with the field each
\* is for, or the panic of locations[index]
set_light_uniform(G, light, point, dir_or_pos, at_index) ==
    LET locations == IF point THEN G.point_lights_locations
                     ELSE G.directional_lights_locations
        upload(field, value) ==
            LET calls == ok_call(set_to_context(Uniform_new_with_location(
                             "", locations[at_index][field], value)))
            IN  [k \in 1..Len(calls) |-> [field |-> field, call |-> calls[k]]]
    IN  IF index_panics(locations, at_index)
        THEN [log |-> <<>>, panicked |-> TRUE]
        ELSE [log |->
                 upload("color", [kind |-> "array", type |-> "Vector3",
                                  v |-> light.color])
                 \o upload("intensity", [kind |-> "f32",
                                         v |-> light.intensity])
                 \o upload("attenuation", [kind |-> "f32",
                                           v |-> light.attenuation])
                 \o upload("position_or_direction",
                           [kind |-> "array", type |-> "Vector3",
                            v |-> dir_or_pos]),
              panicked |-> FALSE]

\* One of the loops of lines 47-59 over a list of the repository, from
\* its entry k on; an entry of the log carries, as `of`, the list and the
\* index of its light
RECURSIVE set_light_uniforms(_, _, _, _, _, _)
set_light_uniforms(G, list, kind, point, at, k) ==
    IF k > Len(list) THEN [log |-> <<>>, panicked |-> FALSE]
    ELSE LET r == set_light_uniform(G, list[k].light, point, list[k][at],
                                    k - 1)
             rest == set_light_uniforms(G, list, kind, point, at, k + 1)
         IN  IF r.panicked THEN r
             ELSE [log |-> [j \in 1..Len(r.log) |->
                              [of |-> <<kind, k - 1>>,
                               field |-> r.log[j].field,
                               call |-> r.log[j].call]] \o rest.log,
                   panicked |-> rest.panicked]

\* LightRepository::set_material_uniforms
set_material_uniforms(R, G) ==
    LET ambiant ==
            IF R.ambiant[1] = "Some"
            THEN LET calls == ok_call(set_to_context(
                         Uniform_new_with_location(
                             "", G.ambiant_light_location,
                             [kind |-> "array", type |-> "Vector4",
                              v |-> <<R.ambiant[2].color,
                                      R.ambiant[2].intensity>>])))
                 IN  [k \in 1..Len(calls) |->
                         [of |-> <<"ambiant", 0>>, field |-> "ambiant",
                          call |-> calls[k]]]
            ELSE <<>>
        dir == set_light_uniforms(G, R.directional, "directional", FALSE,
                                  "direction", 1)
        pnt == set_light_uniforms(G, R.point, "point", FALSE,
                                  "position", 1)
    IN  IF dir.panicked THEN [log |-> ambiant \o dir.log, panicked |-> TRUE]
        ELSE [log |-> ambiant \o dir.log \o pnt.log,
              panicked |-> pnt.panicked]

UploadRest ==
    /\ upLog = <<>>
    /\ upPanicked = FALSE

\* The Material is compiled with a lit shader; nothing is looked up yet.
UploadInit ==
    /\ UploadRest
    /\ in_program = LitProgram
    /\ qUniform = Uniform_new(UniformName, [kind |-> "f32", v |-> 0])
    /\ global_uniform_locations = GlobalUniformLocations_new
    /\ buffer_config =
          [BufferConfig_new EXCEPT
              !.vertex_name = <<"Some", <<"a_position">>>>,
              !.normals_name = <<"Some", <<"a_normal">>>>]
    /\ queries = [name \in LitProgram \cup AllNames |-> 0]
    /\ qOp = [name |-> "new", args |-> <<>>, before |-> queries]

\* The host replaces the lights of the scene, all of them enabled.
SetLights(nd, np) ==
    /\ ~upPanicked
    /\ lLights # LightList(nd, np)
    /\ lLights' = LightList(nd, np)
    /\ lEnabled' = 1..(nd + np)
    /\ upLog' = <<>>
    /\ UNCHANGED <<light_repository, light_configuration, lStale,
                   upPanicked, sceneVars, graphVars, assetVars, renderVars,
                   moreVars, bufferVars, lastVars>>

\* Mesh::compile_material, line 61: the locations of the material are
\* looked up with the LightConfiguration of the lighting pass.
LookupLightLocations ==
    /\ ~upPanicked
    /\ upLog' = <<>>
    /\ IF lookup_locations_panics(global_uniform_locations,
                                  light_configuration)
       THEN /\ upPanicked' = TRUE
            /\ UNCHANGED <<global_uniform_locations, queries, qOp>>
       ELSE /\ LET r == GlobalUniformLocations_lookup_locations(
                            global_uniform_locations, TheContext,
                            light_configuration)
               IN  /\ global_uniform_locations' = r.locations
                   /\ queries' = r.Q.queries
            /\ qOp' = [name |-> "GlobalUniformLocations::lookup_locations",
                       args |-> <<light_configuration>>,
                       before |-> queries]
            /\ UNCHANGED upPanicked
    /\ UNCHANGED <<in_program, qUniform, buffer_config, coreVars,
                   uniformVars, programVars, bufferVars, lastVars>>

\* Renderer::set_lights_uniforms for the material of a group
SetMaterialUniforms ==
    /\ ~upPanicked
    /\ LET r == set_material_uniforms(light_repository,
                                      global_uniform_locations)
       IN  /\ upLog' = r.log
           /\ upPanicked' = r.panicked
    /\ UNCHANGED <<coreVars, moreVars, bufferVars, lastVars>>

UploadNext ==
    \/ \E nd, np \in UploadCounts : SetLights(nd, np)
    \/ LightingSystem_run
    \/ LookupLightLocations
    \/ SetMaterialUniforms

\* ------------------------------------------------------------------------
\* renderer/buffer.rs: a Buffer and its attribute
\* ------------------------------------------------------------------------
\* The attribute index of an active attribute, by its name
AttribIndex ==
    [name \in AttributeNames |->
        CASE name = <<"a_position">> -> 0
          [] name = <<"a_normal">> -> 1
          [] name = <<"a_weights">> -> 2]

\* context.get_attrib_location(program, name) as an i32: -1 for a name
\* that is no active attribute of the program
attrib_location(program, name) ==
    IF name \in program THEN AttribIndex[name] ELSE -1

\* `x as u32` of an i32: the value modulo two to the width, with i32 and
\* u32 sixteen bits wide here
as_u32(x) == x % (2 ^ 16)

\* Buffer::from_f32_data, from_i16_data and from_u8_data, by the number
\* type each sets
Buffer_from_data(name, data_type, number_type) ==
    [attribute_name |-> name, attribute_location |-> <<"None">>,
     data_type |-> data_type, number_type |-> number_type,
     stride |-> 0, offset |-> 0]

\* Buffer::lookup_location
Buffer_lookup_location(buffer, program) ==
    IF buffer.attribute_location = <<"None">>
    THEN [buffer EXCEPT !.attribute_location =
             <<"Some", attrib_location(program, buffer.attribute_name)>>]
    ELSE buffer

\* Buffer::enable_and_bind_attribute: the GL calls made, and whether
\* self.attribute_location.unwrap() panicked
enable_and_bind_attribute(buffer) ==
    IF buffer.attribute_location = <<"None">>
    THEN [calls |-> << <<"bind_buffer", buffer.attribute_name>> >>,
          panicked |-> TRUE]
    ELSE LET location == as_u32(buffer.attribute_location[2])
         IN  [calls |-> << <<"bind_buffer", buffer.attribute_name>>,
                           <<"enable_vertex_attrib_array", location>>,
                           <<"vertex_attrib_pointer", location,
                             buffer.data_type, buffer.number_type,
                             buffer.stride, buffer.offset>> >>,
              panicked |-> FALSE]

\* Before the host has made a Buffer of its own: one of positions
BufferRest ==
    /\ bBuffer = Buffer_from_data(<<"a_position">>, "Vector3", "FLOAT")
    /\ bLog = <<>>
    /\ bPanicked = FALSE

\* The program the buffer is looked up in has all the attributes or lacks
\* the weights
BufferInit ==
    /\ BufferRest
    /\ in_program \in {AllNames, AllNames \ {<<"a_weights">>}}
    /\ qUniform = Uniform_new(UniformName, [kind |-> "f32", v |-> 0])
    /\ global_uniform_locations = GlobalUniformLocations_new
    /\ buffer_config =
          [BufferConfig_new EXCEPT
              !.vertex_name = <<"Some", <<"a_position">>>>,
              !.normals_name = <<"Some", <<"a_normal">>>>]
    /\ queries = [name \in AllNames |-> 0]
    /\ qOp = [name |-> "new", args |-> <<>>, before |-> queries]

NewBuffer(name, data_type, number_type) ==
    /\ bBuffer' = Buffer_from_data(name, data_type, number_type)
    /\ bLog' = <<>>
    /\ bPanicked' = FALSE
    /\ UNCHANGED <<coreVars, moreVars, uploadVars, lastVars>>

\* The host sets the public fields stride and offset.
SetStrideOffset(stride, offset) ==
    /\ <<bBuffer.stride, bBuffer.offset>> # <<stride, offset>>
    /\ bBuffer' = [bBuffer EXCEPT !.stride = stride, !.offset = offset]
    /\ bLog' = <<>>
    /\ bPanicked' = FALSE
    /\ UNCHANGED <<coreVars, moreVars, uploadVars, lastVars>>

BufferLookupLocation ==
    /\ bBuffer' = Buffer_lookup_location(bBuffer, in_program)
    /\ bLog' = <<>>
    /\ bPanicked' = FALSE
    /\ UNCHANGED <<coreVars, moreVars, uploadVars, lastVars>>

EnableAndBindAttribute ==
    /\ LET r == enable_and_bind_attribute(bBuffer)
       IN  /\ bLog' = r.calls
           /\ bPanicked' = r.panicked
    /\ UNCHANGED <<bBuffer, coreVars, moreVars, uploadVars, lastVars>>

BufferNext ==
    \/ \E name \in AttributeNames, data_type \in {"Vector3", "Vector4"},
          number_type \in {"FLOAT", "SHORT", "UNSIGNED_BYTE"} :
          NewBuffer(name, data_type, number_type)
    \/ \E stride, offset \in {0, 4} : SetStrideOffset(stride, offset)
    \/ BufferLookupLocation
    \/ EnableAndBindAttribute

\* ------------------------------------------------------------------------
\* asset/mesh.rs: a Mesh, its Buffers and their construction
\* ------------------------------------------------------------------------
\* The most buffers the context is asked for
MaxBuffers == 6

\* The most calls of create_buffer the context answers before it is lost
MaxBudget == 3

\* The optional buffers of a Mesh, in the order construct takes them
OptionalBuffers ==
    <<"indexes", "uvs", "normals", "joint_weights", "tangeants">>

\* A Buffer as the host or a file gives it: nothing constructed, the data
\* there or cleaned
Buffer_new(data_type, has_data) ==
    [value |-> <<"None">>,
     data_type |-> data_type,
     data |-> IF has_data THEN <<"Some", data_type>> ELSE <<"None">>]

\* Mesh::new: positions, and indexes and normals if the host has them
MeshAsset_new(positions, indexes, normals) ==
    [positions |-> positions, indexes |-> indexes, uvs |-> <<"None">>,
     normals |-> normals, joint_weights |-> <<"None">>,
     tangeants |-> <<"None">>]

\* impl Constructible for Buffer: construct.  created counts the buffers
\* of the context and names the new one; budget is how many more times
\* create_buffer answers before the context is lost
Buffer_construct(buf, created, budget) ==
    IF budget = 0
    THEN [buffer |-> buf, created |-> created, budget |-> budget,
          result |-> <<"Err", "Could not construct buffer">>]
    ELSE IF buf.data = <<"None">>
    THEN [buffer |-> buf, created |-> created + 1, budget |-> budget - 1,
          result |-> <<"Err", "Trying to construct buffer without data">>]
    ELSE [buffer |-> [buf EXCEPT !.value = <<"Some", created + 1>>],
          created |-> created + 1, budget |-> budget - 1,
          result |-> <<"Ok">>]

Buffer_is_constructed(buf) == buf.value # <<"None">>

\* delete_buffer, and the value forgotten
Buffer_deconstruct(buf) == [buf EXCEPT !.value = <<"None">>]

\* The data and the buffer of the context both dropped
Buffer_forget(buf) ==
    [buf EXCEPT !.data = <<"None">>, !.value = <<"None">>]

Buffer_clean(buf) == [buf EXCEPT !.data = <<"None">>]

\* Buffer::bind: the bind_buffer call it makes, or the error
Buffer_bind(buf) ==
    IF buf.value # <<"None">>
    THEN <<"Ok", <<"bind_buffer",
                   IF buf.data_type = "Vertex" THEN "ARRAY_BUFFER"
                   ELSE "ELEMENT_ARRAY_BUFFER",
                   buf.value[2]>>>>
    ELSE <<"Err", "Trying to bind an unconstructed buffer">>

\* Mesh::construct_buffer on the optional buffers from the k-th on, each
\* `?` returning at the first Err
RECURSIVE construct_buffers(_, _, _, _)
construct_buffers(mesh, k, created, budget) ==
    IF k > Len(OptionalBuffers)
    THEN [mesh |-> mesh, created |-> created, result |-> <<"Ok">>]
    ELSE LET f == OptionalBuffers[k]
         IN  IF mesh[f] = <<"None">>
             THEN construct_buffers(mesh, k + 1, created, budget)
             ELSE LET r == Buffer_construct(mesh[f][2], created, budget)
                      m1 == [mesh EXCEPT ![f] = <<"Some", r.buffer>>]
                  IN  IF r.result[1] = "Err"
                      THEN [mesh |-> m1, created |-> r.created,
                            result |-> r.result]
                      ELSE construct_buffers(m1, k + 1, r.created,
                                             r.budget)

\* impl Constructible for Mesh: construct
Mesh_construct(mesh, created, budget) ==
    LET r == Buffer_construct(mesh.positions, created, budget)
    IN  IF r.result[1] = "Err"
        THEN [mesh |-> mesh, created |-> r.created, result |-> r.result]
        ELSE construct_buffers([mesh EXCEPT !.positions = r.buffer], 1,
                               r.created, r.budget)

Mesh_is_constructed(mesh) == Buffer_is_constructed(mesh.positions)

\* Mesh::deconstruct_buffer, Mesh::clean_buffer
on_buffer(buffer, Op(_)) ==
    IF buffer = <<"None">> THEN buffer ELSE <<"Some", Op(buffer[2])>>

Mesh_deconstruct(mesh) ==
    [f \in DOMAIN mesh |->
        IF f = "positions" THEN Buffer_deconstruct(mesh[f])
        ELSE on_buffer(mesh[f], Buffer_deconstruct)]

Mesh_clean(mesh) ==
    [f \in DOMAIN mesh |->
        IF f = "positions" THEN Buffer_clean(mesh[f])
        ELSE on_buffer(mesh[f], Buffer_clean)]

\* The buffers the host makes a Mesh of: vertex or index data, there or
\* cleaned already
HostBuffers(data_type) == {Buffer_new(data_type, d) : d \in BOOLEAN}

HostMeshes ==
    {MeshAsset_new(p, i, n) :
        p \in HostBuffers("Vertex"),
        i \in {<<"None">>} \cup {<<"Some", b>> : b \in HostBuffers("Index")},
        n \in {<<"None">>} \cup {<<"Some", b>> : b \in HostBuffers("Vertex")}}

\* How many buffers a Mesh carries
BufferCount(mesh) ==
    1 + Cardinality({k \in 1..Len(OptionalBuffers) :
                        mesh[OptionalBuffers[k]] # <<"None">>})

\* Before the host has made a Mesh of its own: one of positions
MeshRest ==
    /\ mMesh = MeshAsset_new(Buffer_new("Vertex", TRUE), <<"None">>,
                             <<"None">>)
    /\ buffers_created = 0
    /\ mOp = [name |-> "new", result |-> <<"Ok">>]
    /\ mLast = "none"

MeshInit ==
    /\ mMesh \in HostMeshes
    /\ buffers_created = 0
    /\ mOp = [name |-> "new", result |-> <<"Ok">>]
    /\ mLast = "none"

\* mesh.construct(context), the context answering `budget` more times
MeshConstruct(budget) ==
    /\ buffers_created + BufferCount(mMesh) <= MaxBuffers
    /\ LET r == Mesh_construct(mMesh, buffers_created, budget)
       IN  /\ mMesh' = r.mesh
           /\ buffers_created' = r.created
           /\ mOp' = [name |-> "construct", result |-> r.result]
           /\ mLast' = r.result[1]
    /\ UNCHANGED notMeshVars

MeshDeconstruct ==
    /\ mMesh' = Mesh_deconstruct(mMesh)
    /\ mOp' = [name |-> "deconstruct", result |-> <<"Ok">>]
    /\ mLast' = "none"
    /\ UNCHANGED <<buffers_created, notMeshVars>>

MeshClean ==
    /\ mMesh' = Mesh_clean(mMesh)
    /\ mOp' = [name |-> "clean", result |-> <<"Ok">>]
    /\ UNCHANGED <<buffers_created, mLast, notMeshVars>>

\* The two Constructibles of the host: a Material and a Mesh
ConstructNext ==
    \/ \E clean_up \in BOOLEAN : Construct(clean_up)
    \/ \E budget \in 0..MaxBudget : MeshConstruct(budget)
    \/ MeshDeconstruct
    \/ MeshClean

\* ------------------------------------------------------------------------
\* component/camera.rs, renderer/mod.rs: the camera and the canvas
\* ------------------------------------------------------------------------
\* The widest and highest display of the host, in CSS pixels, and the
\* highest device pixel ratio
MaxDisplay == 2
MaxPixelRatio == 2

\* The sizes of a display and the device pixel ratios
DisplaySizes == 1..MaxDisplay
PixelRatios == 1..MaxPixelRatio

\* display_width as f32 / display_height as f32, in hundredths
aspect_of(display_width, display_height) ==
    (display_width * 100) \div display_height

\* Perspective3::new
Perspective3_new(aspect_ratio, fov, znear, zfar) ==
    [aspect |-> aspect_ratio, fov |-> fov, znear |-> znear, zfar |-> zfar]

\* Isometry3::look_at_rh(position, target, y)
look_at_rh(position, target) == [eye |-> position, target |-> target]

\* projection.into_inner() * view.to_homogeneous(): the product of the
\* two matrices, kept by its factors
view_projection(projection, view) ==
    [projection |-> projection, view |-> view]

\* Camera::new
Camera_new(aspect_ratio, fov, znear, zfar, position, target) ==
    [projection |-> Perspective3_new(aspect_ratio, fov, znear, zfar),
     view |-> look_at_rh(position, target),
     vp_matrix |-> "zero",
     dirty |-> TRUE]

\* Camera::set_aspect_ratio
set_aspect_ratio(camera, aspect_ratio) ==
    [camera EXCEPT !.projection.aspect = aspect_ratio]

\* Camera::get_vp_matrix
get_vp_matrix(camera) ==
    IF camera.dirty
    THEN <<"Err", "Trying to get camera's vp_matrix while it is dirty!">>
    ELSE <<"Ok", camera.vp_matrix>>

\* Camera::compute_vp_matrix: the camera after the call and what it returns
compute_vp_matrix(camera) ==
    LET after == IF camera.dirty
                 THEN [camera EXCEPT
                          !.vp_matrix = view_projection(camera.projection,
                                                        camera.view),
                          !.dirty = FALSE]
                 ELSE camera
    IN  [camera |-> after, result |-> after.vp_matrix]

\* Renderer::resize_canvas for a display of the given size
resize_canvas(camera, cv, vp, display_width, display_height, pixel_ratio) ==
    LET resolution_x == display_width * pixel_ratio
        resolution_y == display_height * pixel_ratio
    IN  IF cv.width # resolution_x \/ cv.height # resolution_y
        THEN [camera |-> set_aspect_ratio(camera,
                            aspect_of(display_width, display_height)),
              canvas |-> [width |-> resolution_x, height |-> resolution_y],
              viewport |-> [width |-> resolution_x,
                            height |-> resolution_y]]
        ELSE [camera |-> camera, canvas |-> cv, viewport |-> vp]

\* Renderer::new: the camera of the host over a canvas of one pixel
CameraRest ==
    /\ main_camera = Camera_new(100, 45, 1, 100, "eye", "origin")
    /\ canvas = [width |-> 1, height |-> 1]
    /\ viewport = [width |-> 1, height |-> 1]
    /\ cOp = [name |-> "new", result |-> <<"Ok">>]

CameraInit ==
    /\ \E w, h \in DisplaySizes :
          /\ main_camera = Camera_new(aspect_of(w, h), 45, 1, 100, "eye",
                                      "origin")
          /\ canvas = [width |-> w, height |-> h]
          /\ viewport = canvas
    /\ cOp = [name |-> "new", result |-> <<"Ok">>]

\* The frame loop of the host resizes the canvas to the display.
ResizeCanvas(display_width, display_height, pixel_ratio) ==
    /\ LET r == resize_canvas(main_camera, canvas, viewport, display_width,
                              display_height, pixel_ratio)
       IN  /\ main_camera' = r.camera
           /\ canvas' = r.canvas
           /\ viewport' = r.viewport
    /\ cOp' = [name |-> "resize_canvas", result |-> <<"Ok">>]
    /\ UNCHANGED notCameraVars

SetAspectRatio(aspect_ratio) ==
    /\ main_camera' = set_aspect_ratio(main_camera, aspect_ratio)
    /\ cOp' = [name |-> "set_aspect_ratio", result |-> <<"Ok">>]
    /\ UNCHANGED <<canvas, viewport, notCameraVars>>

GetVpMatrix ==
    /\ cOp' = [name |-> "get_vp_matrix",
               result |-> get_vp_matrix(main_camera)]
    /\ UNCHANGED <<main_camera, canvas, viewport, notCameraVars>>

ComputeVpMatrix ==
    /\ LET r == compute_vp_matrix(main_camera)
       IN  /\ main_camera' = r.camera
           /\ cOp' = [name |-> "compute_vp_matrix",
                      result |-> <<"Ok", r.result>>]
    /\ UNCHANGED <<canvas, viewport, notCameraVars>>

CameraNext ==
    \/ \E w, h \in DisplaySizes, pixel_ratio \in PixelRatios :
          ResizeCanvas(w, h, pixel_ratio)
    \/ \E w, h \in DisplaySizes : SetAspectRatio(aspect_of(w, h))
    \/ GetVpMatrix
    \/ ComputeVpMatrix

\* One Buffer of the host, outside a Mesh
AssetBufferRest ==
    /\ abBuffer = Buffer_new("Vertex", TRUE)
    /\ abOp = [name |-> "new", result |-> <<"Ok">>]

AssetBufferInit ==
    /\ abBuffer \in HostBuffers("Vertex") \cup HostBuffers("Index")
    /\ abOp = [name |-> "new", result |-> <<"Ok">>]
    /\ MeshRest

\* What a call on the Buffer leaves alone
notAssetBufferVars ==
    <<mMesh, mOp, mLast, coreVars, moreVars, uploadVars, bufferVars,
      cameraVars>>

\* buffer.construct(context), the context answering `budget` more times
AssetBufferConstruct(budget) ==
    /\ buffers_created < MaxBuffers
    /\ LET r == Buffer_construct(abBuffer, buffers_created, budget)
       IN  /\ abBuffer' = r.buffer
           /\ buffers_created' = r.created
           /\ abOp' = [name |-> "construct", result |-> r.result]
    /\ UNCHANGED notAssetBufferVars

AssetBufferDeconstruct ==
    /\ abBuffer' = Buffer_deconstruct(abBuffer)
    /\ abOp' = [name |-> "deconstruct", result |-> <<"Ok">>]
    /\ UNCHANGED <<buffers_created, notAssetBufferVars>>

AssetBufferClean ==
    /\ abBuffer' = Buffer_clean(abBuffer)
    /\ abOp' = [name |-> "clean", result |-> <<"Ok">>]
    /\ UNCHANGED <<buffers_created, notAssetBufferVars>>

AssetBufferBind ==
    /\ abOp' = [name |-> "bind", result |-> Buffer_bind(abBuffer)]
    /\ UNCHANGED <<abBuffer, buffers_created, notAssetBufferVars>>

AssetBufferNext ==
    \/ \E budget \in 0..MaxBudget : AssetBufferConstruct(budget)
    \/ AssetBufferDeconstruct
    \/ AssetBufferClean
    \/ AssetBufferBind

\* The objects of the last sections rest as constructed
LastRest == MeshRest /\ CameraRest /\ AssetBufferRest

\* ------------------------------------------------------------------------
\* The specifications: one subsystem moves, the others rest
\* ------------------------------------------------------------------------
CoreInit ==
    /\ SceneInit /\ sceneMode = "any" /\ GraphInit /\ AssetInit
    /\ RenderInit /\ LightInit

\* The subsystems with a choice of initial state rest in one of them
LocationRest ==
    /\ LocationInit
    /\ in_program = AllNames
    /\ buffer_config.weights_name = <<"None">>

ProgramRest ==
    /\ ProgramInit
    /\ pMaterial = Material_new("compiles", "compiles", FALSE, FALSE, TRUE)

\* The objects of the later sections rest as constructed
LateRest == UploadRest /\ BufferRest /\ LastRest

MoreInit == UniformInit /\ LocationRest /\ ProgramRest /\ LateRest

InitScene ==
    SceneInit /\ GraphInit /\ AssetInit /\ RenderInit /\ LightInit /\ MoreInit

SpecScene == InitScene /\ [][SceneNext]_vars

InitComponents ==
    /\ sceneMode = "components" /\ SceneStart
    /\ GraphInit /\ AssetInit /\ RenderInit /\ LightInit /\ MoreInit

SpecComponents == InitComponents /\ [][ComponentNext]_vars

InitGraph == GraphInit /\ CoreInit /\ MoreInit

SpecGraph == InitGraph /\ [][GraphNext]_vars

InitAssets == AssetInit /\ CoreInit /\ MoreInit

SpecAssets == InitAssets /\ [][AssetNext]_vars

InitRender ==
    /\ RenderInit /\ SceneInit /\ sceneMode = "any" /\ GraphInit /\ LightInit
    /\ MoreInit
    /\ assets = RenderRegistry.assets
    /\ index = RenderRegistry.index
    /\ aOp = [name |-> "register_material_instance",
              data |-> [file |-> "MaterialInstanceFile", id |-> "c",
                        parent_id |-> "a"],
              result |-> <<"Ok", "c">>]

SpecRender == InitRender /\ [][RenderNext]_vars

InitOpacity ==
    /\ RenderInit /\ SceneInit /\ sceneMode = "any" /\ GraphInit /\ LightInit
    /\ MoreInit
    /\ assets = OpacityRegistry.assets
    /\ index = OpacityRegistry.index
    /\ aOp = [name |-> "register_material_instance",
              data |-> [file |-> "MaterialInstanceFile", id |-> "ib",
                        parent_id |-> "b"],
              result |-> <<"Ok", "ib">>]

SpecOpacity == InitOpacity /\ [][OpacityNext]_vars

InitLight == LightInit /\ CoreInit /\ MoreInit

SpecLight == InitLight /\ [][LightNext]_vars

InitUniforms ==
    UniformInit /\ CoreInit /\ LocationRest /\ ProgramRest /\ LateRest

SpecUniforms == InitUniforms /\ [][UniformNext]_vars

SpecTextures == InitUniforms /\ [][TextureNext]_vars

InitLocations ==
    LocationInit /\ CoreInit /\ UniformInit /\ ProgramRest /\ LateRest

SpecLocations == InitLocations /\ [][LocationNext]_vars

InitProgram ==
    ProgramInit /\ CoreInit /\ UniformInit /\ LocationRest /\ LateRest

SpecProgram == InitProgram /\ [][ProgramNext]_vars

InitConstruct ==
    /\ ProgramInit /\ MeshInit
    /\ CoreInit /\ UniformInit /\ LocationRest /\ UploadRest /\ BufferRest
    /\ CameraRest /\ AssetBufferRest

SpecConstruct == InitConstruct /\ [][ConstructNext]_vars

InitCamera ==
    /\ CameraInit /\ MeshRest /\ AssetBufferRest
    /\ CoreInit /\ UniformInit /\ LocationRest /\ ProgramRest
    /\ UploadRest /\ BufferRest

SpecCamera == InitCamera /\ [][CameraNext]_vars

InitAssetBuffer ==
    /\ AssetBufferInit /\ CameraRest
    /\ CoreInit /\ UniformInit /\ LocationRest /\ ProgramRest
    /\ UploadRest /\ BufferRest

SpecAssetBuffer == InitAssetBuffer /\ [][AssetBufferNext]_vars

InitUpload ==
    UploadInit /\ CoreInit /\ UniformInit /\ ProgramRest /\ BufferRest
    /\ LastRest

SpecUpload == InitUpload /\ [][UploadNext]_vars

InitBuffer ==
    BufferInit /\ CoreInit /\ UniformInit /\ ProgramRest /\ UploadRest
    /\ LastRest

SpecBuffer == InitBuffer /\ [][BufferNext]_vars

\* ------------------------------------------------------------------------
\* Properties of the scene tree
\* ------------------------------------------------------------------------

\* C3: destroy(tid) on a live node kills tid and all its descendants, pushes
\* each of these k slots on the free list exactly once (the list grows by
\* exactly k, its old entries untouched) and no node that is live afterwards
\* links to a node of the subtree.
C3_DestroyFreesSubtree ==
    [][sceneOp'.name = "destroy" =>
        LET sub == Subtree(transforms, sceneOp'.tid)
            k == Cardinality(sub)
            n == Len(free_transforms)
        IN  /\ \A m \in sub : transforms'[m].dead
            /\ Len(free_transforms') = n + k
            /\ SubSeq(free_transforms', 1, n) = free_transforms
            /\ {free_transforms'[i] : i \in (n + 1)..(n + k)} = sub
            /\ \A m \in 1..Len(transforms') :
                  ~transforms'[m].dead => Links(transforms'[m]) \cap sub = {}
    ]_vars

\* A node with two children and four grandchildren was destroyed: seven
\* slots on the free list.
C3_Witness ==
    /\ sceneOp.name = "destroy"
    /\ Len(free_transforms) = 7
    /\ Len(transforms) = 7
    /\ Cardinality({c \in Slots : transforms[c].parent = sceneOp.tid}) = 2
    /\ Cardinality({g \in Slots : transforms[g].parent # None /\
            transforms[transforms[g].parent].parent = sceneOp.tid}) = 4

\* C4: in every state reached by append_new and destroy on live ids, the
\* first_child/next_sibling chain of every live node p visits exactly the
\* live nodes whose parent is p, oldest first, and ends at last_child;
\* previous_sibling and next_sibling are mutual inverses; and no live node
\* links to a dead slot.
C4_WellFormed ==
    \A p \in Live :
        LET t == transforms[p]
            chain == ChildChain(transforms, p)
        IN  /\ chain = ChildrenByAge(p)
            /\ t.last_child =
                  (IF chain = <<>> THEN None ELSE chain[Len(chain)])
            /\ t.next_sibling # None =>
                  transforms[t.next_sibling].previous_sibling = p
            /\ t.previous_sibling # None =>
                  transforms[t.previous_sibling].next_sibling = p
            /\ Links(t) \subseteq Live

\* The middle one of three children was destroyed: its former siblings are
\* now neighbours.
C4_Witness ==
    /\ sceneOp.name = "destroy"
    /\ LET t == transforms[sceneOp.tid]
       IN  /\ t.previous_sibling # None /\ t.next_sibling # None
           /\ t.parent \in Live
           /\ ChildChain(transforms, t.parent) =
                 <<t.previous_sibling, t.next_sibling>>

\* C5: append_new reuses freed slots first in, first out: with a non-empty
\* free list it returns the head (the oldest freed index), removes exactly
\* that entry, leaves the arena length unchanged and the slot holds a fresh
\* live transform; with an empty free list it returns transforms.len() and
\* the arena grows by one.
C5_ReuseFifo ==
    [][sceneOp'.name = "append_new" =>
        LET r == sceneOp'.result
        IN  /\ ~transforms'[r].dead
            /\ transforms'[r].parent = sceneOp'.parent
            /\ transforms'[r].first_child = None
            /\ transforms'[r].last_child = None
            /\ transforms'[r].next_sibling = None
            /\ IF free_transforms # <<>>
               THEN /\ r = free_transforms[1]
                    /\ free_transforms' = Tail(free_transforms)
                    /\ Len(transforms') = Len(transforms)
               ELSE /\ r = Len(transforms) + 1
                    /\ Len(transforms') = Len(transforms) + 1
                    /\ free_transforms' = <<>>
    ]_vars

\* A slot was reused while another one stays on the free list.
C5_Witness ==
    /\ sceneOp.name = "append_new"
    /\ free_transforms # <<>>
    /\ sceneOp.result < Len(transforms)

\* ------------------------------------------------------------------------
\* Properties of the transform hierarchy
\* ------------------------------------------------------------------------
\* A step of SceneGraphSystem::run: the only step that changes a transform
\* or a DirtyTransform mark and leaves the hierarchy, the Enabled flags and
\* the count of setter calls alone.
GraphPass ==
    /\ gParent' = gParent
    /\ gEnabled' = gEnabled
    /\ gSets' = gSets

\* world = parent.world * local, local alone for a root
Resolved(T, P, m) ==
    T[m].world_matrix =
        IF P[m] = None THEN local_matrix(T[m])
        ELSE T[P[m]].world_matrix \o local_matrix(T[m])

\* The nodes marked for a refresh and their descendants
Marked(P, D) == D \cup UNION {all_children(P, n) : n \in D}

\* Marked, with a local TRS that is not the one CreateEntity gives: a setter
\* was applied to it.
Moved(n) ==
    /\ n \in gDirty
    /\ local_matrix(gTransform[n]) # local_matrix(Transform_new3(0, 0, 0))

\* No ancestor of n waits for a refresh while disabled
AncestorsReady(n) ==
    \A a \in Entities :
        HasAncestor(gParent, n, a, Cardinality(Entities)) =>
            ~(a \in gDirty /\ a \notin gEnabled)

C2_NoStaleRead ==
    [][\A n \in Entities :
          (gSets' = gSets + 1 /\ gTransform'[n] # gTransform[n]) =>
              \A m \in {n} \cup all_children(gParent, n) :
                  get_world_matrix(gTransform'[m]) = <<"Err">>
    ]_vars

\* ------------------------------------------------------------------------
\* Properties of the asset registry
\* ------------------------------------------------------------------------
\* The last call failed.
Failed == aOp'.result[1] = "Err"

\* The last call was register_material_instance with a well-formed file
\* whose parent id is not the id of a registered Material.
MissingParent ==
    /\ aOp'.name = "register_material_instance"
    /\ aOp'.data.file = "MaterialInstanceFile"
    /\ get_material(TheRegistry, aOp'.data.parent_id)[1] = "None"

\* No id was registered twice.
OncePerId == Len(assets) = Cardinality(DOMAIN index)

\* C6 as stated, were it only for registries in which no id was registered
\* twice: a failing registration leaves assets and index as they were;
\* register_material_instance with an unregistered parent fails and
\* get_material_instance on the id of its file returns None afterwards.
C6_FailureLeavesNothing ==
    [][OncePerId =>
        /\ Failed => assets' = assets /\ index' = index
        /\ MissingParent =>
              /\ Failed
              /\ get_material_instance(
                     [assets |-> assets', index |-> index'],
                     aOp'.data.id)[1] = "None"
    ]_vars

\* C6, amended: the same, but get_material_instance on the id of the failed
\* file returns what it returned before the call, which is None unless an
\* earlier registration put a MaterialInstance under that id.
C6_FailureChangesNothing ==
    [][/\ Failed => assets' = assets /\ index' = index
       /\ MissingParent =>
             /\ Failed
             /\ get_material_instance([assets |-> assets', index |-> index'],
                                      aOp'.data.id) =
                   get_material_instance(TheRegistry, aOp'.data.id)
             /\ aOp'.data.id \notin DOMAIN index =>
                   get_material_instance(
                       [assets |-> assets', index |-> index'],
                       aOp'.data.id)[1] = "None"
    ]_vars

\* An instance file that names a parent id under which a MeshData, not a
\* Material, is registered was refused, next to a registered Material.
C6_Witness ==
    /\ aOp.name = "register_material_instance"
    /\ aOp.data.file = "MaterialInstanceFile"
    /\ aOp.result[1] = "Err"
    /\ get_mesh_data(TheRegistry, aOp.data.parent_id)[1] = "Some"
    /\ \E i \in Ids : get_material(TheRegistry, i)[1] = "Some"
    /\ aOp.data.id \notin DOMAIN index

\* ------------------------------------------------------------------------
\* Properties of a frame
\* ------------------------------------------------------------------------
\* The step of RenderingSystem::run
RenderingPass == rPhase = "compiled" /\ rPhase' = "idle"

\* The places <<material, mesh data, position>> of the leaves of a grouping
Leaves(g) ==
    UNION {UNION {{<<m, d, i>> : i \in 1..Len(g[m][d])} :
                     d \in DOMAIN g[m]} : m \in DOMAIN g}

\* C7: for the enabled mesh entities, RenderingSystem builds one top-level
\* group for each distinct material id, keys the inner map of a material by
\* exactly the mesh-data ids used with it, and the leaves together hold
\* each enabled entity exactly once, under its material and mesh data and
\* with its instance id, and nothing else.
C7_GroupingConserves ==
    [][RenderingPass =>
        LET g == rGroups'
            Mats == {rMesh[e].material : e \in rEnabled}
        IN  /\ DOMAIN g = Mats
            /\ Cardinality(DOMAIN g) = Cardinality(Mats)
            /\ \A m \in Mats :
                  DOMAIN g[m] = {rMesh[e].mesh_data :
                                    e \in {x \in rEnabled :
                                              rMesh[x].material = m}}
            /\ \A e \in rEnabled :
                  /\ Cardinality({l \in Leaves(g) :
                                     g[l[1]][l[2]][l[3]][2] = e}) = 1
                  /\ \E i \in 1..Len(g[rMesh[e].material][rMesh[e].mesh_data]) :
                        g[rMesh[e].material][rMesh[e].mesh_data][i] =
                            <<rMesh[e].material_instance, e>>
            /\ Cardinality(Leaves(g)) = Cardinality(rEnabled)
    ]_vars

\* Three enabled entities over two materials, one material with two mesh
\* data, were grouped.
C7_Witness ==
    /\ rPhase = "idle"
    /\ Len(rMesh) = 3
    /\ Cardinality(rEnabled) = 3
    /\ Cardinality(DOMAIN rGroups) = 2
    /\ \E m \in DOMAIN rGroups : Cardinality(DOMAIN rGroups[m]) = 2
    /\ Cardinality(Leaves(rGroups)) = 3

\* The references of a Mesh that the registry resolves
HasMaterial(mesh) ==
    get_material_with_index(TheRegistry, mesh.material)[1] = "Some"
HasMeshData(mesh) ==
    get_mesh_data_with_index(TheRegistry, mesh.mesh_data)[1] = "Some"
HasInstance(mesh) ==
    get_material_instance_with_index(TheRegistry,
                                     mesh.material_instance)[1] = "Some"

\* What the rendering pass adds to the log of the frame
Rendered == SubSeq(rLog', Len(rLog) + 1, Len(rLog'))

Times(log, event) == Cardinality({i \in 1..Len(log) : log[i] = event})

Errors(log) == Cardinality({i \in 1..Len(log) : log[i][1] = "error"})

Draws(log) == Cardinality({i \in 1..Len(log) : log[i][1] = "draw"})

\* C8 as stated: in the rendering pass every enabled entity whose three
\* references are registered is drawn once, every other enabled entity is
\* not drawn and the pass logs an error for the group or the entity with
\* the missing reference; with one valid entity and one entity whose mesh
\* data is not registered the pass issues one draw call and logs one error.
C8_MissingSkippedAndLogged ==
    [][RenderingPass =>
        /\ \A e \in rEnabled :
              LET mesh == rMesh[e]
              IN  IF HasMaterial(mesh) /\ HasMeshData(mesh)
                     /\ HasInstance(mesh)
                  THEN Times(Rendered, <<"draw", e>>) = 1
                  ELSE /\ Times(Rendered, <<"draw", e>>) = 0
                       /\ \/ /\ ~HasMaterial(mesh)
                             /\ Times(Rendered, <<"error", "material",
                                                  mesh.material>>) >= 1
                          \/ /\ HasMaterial(mesh) /\ ~HasMeshData(mesh)
                             /\ Times(Rendered, <<"error", "mesh_data",
                                                  mesh.mesh_data>>) >= 1
                          \/ /\ HasMaterial(mesh) /\ HasMeshData(mesh)
                             /\ Times(Rendered,
                                      <<"error", "material_instance",
                                        mesh.material_instance>>) >= 1
        /\ (\E v, w \in rEnabled :
               /\ rEnabled = {v, w} /\ v # w
               /\ HasMaterial(rMesh[v]) /\ HasMeshData(rMesh[v])
               /\ HasInstance(rMesh[v])
               /\ HasMaterial(rMesh[w]) /\ ~HasMeshData(rMesh[w])
               /\ HasInstance(rMesh[w]))
           => Draws(Rendered) = 1 /\ Errors(Rendered) = 1
    ]_vars

\* ------------------------------------------------------------------------
\* Properties of the lighting pass
\* ------------------------------------------------------------------------
\* A step of LightingSystem::run: the lights and their flags stay
LightingPass == lLights' = lLights /\ lEnabled' = lEnabled

\* The enabled lights are exactly two, both ambient: A, of color (1,0,0)
\* and intensity 2, and B, of color (0,1,0) and intensity 1.
TwoAmbients ==
    /\ Cardinality(lEnabled) = 2
    /\ \A e \in lEnabled : IsAmbient(e)
    /\ {lLights[e].light : e \in lEnabled} = LightValues

\* C9 as stated: with exactly the two enabled ambient lights A and B, the
\* pass leaves the ambient light of color (2,1,0) and intensity 3, in
\* whichever order the entities of A and B are visited.
C9_AmbientMerge ==
    [][(LightingPass /\ TwoAmbients) =>
          /\ light_repository'.ambiant[1] = "Some"
          /\ light_repository'.ambiant[2].color = Vector3_new(2, 1, 0)
          /\ light_repository'.ambiant[2].intensity = 3
    ]_vars

\* The enabled entities of a list: those the if-chain of the pass puts
\* there, by the components they carry
Directionals ==
    {e \in lEnabled : lLights[e].direction # None /\ lLights[e].cone = None}
Points ==
    {e \in lEnabled : /\ lLights[e].transform # None
                      /\ lLights[e].cone = None
                      /\ lLights[e].direction = None}
Spots ==
    {e \in lEnabled : /\ lLights[e].direction # None
                      /\ lLights[e].cone # None
                      /\ lLights[e].transform # None}

\* The list holds one entry for each entity of S, with its light, and
\* nothing else.
ExactlyOf(list, S) ==
    /\ Of(list) = S
    /\ Len(list) = Cardinality(S)
    /\ \A i \in 1..Len(list) : list[i].light = lLights[list[i].of].light

\* C10: after each pass the directional, point and spot lists hold exactly
\* the lights enabled at that pass, the configuration counts them, and the
\* ambient slot is None exactly when no enabled ambient light exists.
C10_RebuiltEachPass ==
    [][LightingPass =>
          /\ ExactlyOf(light_repository'.directional, Directionals)
          /\ ExactlyOf(light_repository'.point, Points)
          /\ ExactlyOf(light_repository'.spot, Spots)
          /\ light_configuration'.directional = Cardinality(Directionals)
          /\ light_configuration'.point = Cardinality(Points)
          /\ light_configuration'.spot = Cardinality(Spots)
          /\ (light_repository'.ambiant = <<"None">>)
                <=> ~\E e \in lEnabled : IsAmbient(e)
    ]_vars

\* The last pass started from a repository that held an entry of a light
\* disabled since and an ambient light though none was enabled any more,
\* and left the lists empty and the ambient slot None.
C10_Witness ==
    /\ lStale
    /\ lEnabled = {}
    /\ light_repository = LightRepository_default
    /\ light_configuration = LightConfiguration_default

\* The enabled entities of each pattern of components
DirectionOnly ==
    {e \in lEnabled : /\ lLights[e].direction # None
                      /\ lLights[e].cone = None
                      /\ lLights[e].transform = None}
TransformOnly == Points
DirectionConeTransform == Spots
NoneOfTheThree ==
    lEnabled \ (DirectionOnly \cup TransformOnly \cup DirectionConeTransform)

\* The intensities of the lights of S, added up
RECURSIVE TotalIntensity(_)
TotalIntensity(S) ==
    IF S = {} THEN 0
    ELSE LET e == CHOOSE x \in S : TRUE
         IN  lLights[e].light.intensity + TotalIntensity(S \ {e})

\* C11 as stated: after a pass the directional list holds exactly the
\* enabled lights carrying a direction only, the point list those carrying
\* a transform only, the spot list those carrying direction, cone and
\* transform, and every other enabled light is merged into the ambient
\* light, whose intensity is then the sum of theirs.
C11_OneAggregateEach ==
    [][LightingPass =>
          /\ ExactlyOf(light_repository'.directional, DirectionOnly)
          /\ ExactlyOf(light_repository'.point, TransformOnly)
          /\ ExactlyOf(light_repository'.spot, DirectionConeTransform)
          /\ NoneOfTheThree # {} =>
                /\ light_repository'.ambiant[1] = "Some"
                /\ light_repository'.ambiant[2].intensity
                      = TotalIntensity(NoneOfTheThree)
    ]_vars

\* ------------------------------------------------------------------------
\* Properties of the uniforms of a Material and its MaterialInstance
\* ------------------------------------------------------------------------
\* A step of MaterialInstance::set_uniform
InstanceSets == uOp'.name = "MaterialInstance::set_uniform"

\* C12 as stated: MaterialInstance::set_uniform with a name the parent has
\* as a shared uniform replaces the parent's shared uniform and leaves the
\* instance's own map as it was; with a name the parent does not have it
\* adds or replaces the instance's own uniform and leaves the parent's
\* shared uniforms as they were.
C12_SharedNameGoesToParent ==
    [][InstanceSets =>
          LET uniform == uOp'.uniform
          IN  IF uniform.name \in DOMAIN shared_uniforms
              THEN /\ shared_uniforms'
                         = insert(shared_uniforms, uniform.name, uniform)
                   /\ uniforms' = uniforms
              ELSE /\ uniforms' = insert(uniforms, uniform.name, uniform)
                   /\ shared_uniforms' = shared_uniforms
    ]_vars

\* ------------------------------------------------------------------------
\* Properties of the location caches
\* ------------------------------------------------------------------------
\* A step that repeats the lookup call made just before, with the same
\* arguments
TwiceInARow == qOp'.name = qOp.name /\ qOp'.args = qOp.args

\* C13 as stated: a lookup_locations call made twice in a row leaves after
\* the second call the locations the first call cached, and over the two
\* calls the context is asked for the location of any one name at most
\* once.
C13_LookupsMemoized ==
    [][TwiceInARow =>
          /\ qUniform' = qUniform
          /\ global_uniform_locations' = global_uniform_locations
          /\ buffer_config' = buffer_config
          /\ \A name \in AllNames : queries'[name] <= qOp.before[name] + 1
    ]_vars

\* ------------------------------------------------------------------------
\* Properties of the program of a Material
\* ------------------------------------------------------------------------
\* C14 as stated: over any sequence of construct calls and shader
\* compilation passes on one Material, with any light configurations, the
\* context links at most one program for it, and a program once set is
\* never replaced.
C14_ProgramCreatedOnce ==
    [][/\ programs_linked' <= 1
       /\ is_constructed(pMaterial) => pMaterial'.program = pMaterial.program
    ]_vars

\* A step of set_uniforms_to_context, of the Material or of the instance,
\* and the map it went through
MaterialUploads == uOp'.name = "Material::set_uniforms_to_context"
InstanceUploads == uOp'.name = "MaterialInstance::set_uniforms_to_context"

\* The uniforms whose upload fails: a texture without a texture index and
\* an array of a data type that is none of the float types
UploadFails(u) ==
    \/ u.value.kind = "texture" /\ u.texture_index = <<"None">>
    \/ u.value.kind = "array" /\ u.value.type = "Sampler2D"

\* The log holds one entry for each uniform of the map: a warning for one
\* whose upload fails, a GL call for every other; and the call returned Ok.
BestEffort(map, done) ==
    /\ done.result = <<"Ok">>
    /\ Len(done.log) = Cardinality(DOMAIN map)
    /\ \A name \in DOMAIN map :
          \E i \in 1..Len(done.log) :
             /\ done.log[i].of = name
             /\ (done.log[i].call[1] = "console_warn")
                   <=> UploadFails(map[name])

\* C15: set_uniforms_to_context, on the Material and on the
\* MaterialInstance, warns about each uniform whose upload fails, uploads
\* every other uniform of the map, and returns Ok.
C15_UploadBestEffort ==
    [][/\ MaterialUploads => BestEffort(shared_uniforms, uLog')
       /\ InstanceUploads => BestEffort(uniforms, uLog')
    ]_vars

\* The Material's set_uniforms_to_context met a failing uniform first,
\* warned, uploaded the other one after it and returned Ok.
C15_Witness ==
    /\ uOp.name = "Material::set_uniforms_to_context"
    /\ DOMAIN shared_uniforms = Names
    /\ Len(uLog.log) = 2
    /\ uLog.log[1].call[1] = "console_warn"
    /\ uLog.log[2].call[1] # "console_warn"
    /\ uLog.result = <<"Ok">>

\* ------------------------------------------------------------------------
\* Properties of registering under an id already taken
\* ------------------------------------------------------------------------
\* The registry after the step
TheRegistryAfter == [assets |-> assets', index |-> index']

\* C16 as stated: an id once registered resolves, after any later
\* register_* call, to the position and to the asset it resolved to
\* before: get_id_from_str and the get_* lookups by string id answer for
\* it what they answered before the call.
C16_RegisteredOnce ==
    [][\A id \in DOMAIN index :
          /\ get_id_from_str(TheRegistryAfter, id)
                = get_id_from_str(TheRegistry, id)
          /\ get_mesh_data(TheRegistryAfter, id)
                = get_mesh_data(TheRegistry, id)
          /\ get_material(TheRegistryAfter, id)
                = get_material(TheRegistry, id)
          /\ get_material_instance(TheRegistryAfter, id)
                = get_material_instance(TheRegistry, id)
          /\ get_texture(TheRegistryAfter, id) = get_texture(TheRegistry, id)
    ]_vars

\* ------------------------------------------------------------------------
\* Properties of the components of the scene
\* ------------------------------------------------------------------------
\* A step of remove_component on a component of the scene
Removes == sceneOp'.name = "remove_component"

\* C17 as stated: remove_component(cid), whatever the number of
\* components of the parent transform and the place of cid among them,
\* does not panic, takes cid out of the component map and out of the list
\* of its parent, and leaves the other components of the list in their
\* order.
C17_RemoveAnywhere ==
    [][Removes =>
          LET cid == sceneOp'.cid
              tid == sceneOp'.tid
          IN  /\ ~sceneOp'.panicked
              /\ cid \notin DOMAIN components'
              /\ component_mapping'[tid]
                    = SelectSeq(component_mapping[tid], LAMBDA c : c # cid)
    ]_vars

\* A step of destroy
Destroys == sceneOp'.name = "destroy"

\* C18: after destroy(tid) the component map holds no component that was
\* attached to a transform of the subtree of tid, component_mapping has no
\* entry for a transform of the subtree, and the components and the
\* entries of the transforms outside the subtree are as they were.
C18_DestroyTakesComponents ==
    [][Destroys =>
          LET sub == Subtree(transforms, sceneOp'.tid)
          IN  /\ \A c \in DOMAIN components :
                    IF components[c] \in sub
                    THEN c \notin DOMAIN components'
                    ELSE /\ c \in DOMAIN components'
                         /\ components'[c] = components[c]
              /\ DOMAIN components' \subseteq DOMAIN components
              /\ \A t \in sub : t \notin DOMAIN component_mapping'
              /\ \A t \in (DOMAIN component_mapping) \ sub :
                    /\ t \in DOMAIN component_mapping'
                    /\ component_mapping'[t] = component_mapping[t]
    ]_vars

\* destroy of a transform with a child took a component of the transform
\* and one of the child, and left the component of a transform outside.
C18_Witness ==
    /\ sceneOp.name = "destroy"
    /\ \E c1, c2 \in DOMAIN sceneOp.gone :
          /\ sceneOp.gone[c1] = sceneOp.tid
          /\ sceneOp.gone[c2] # sceneOp.tid
          /\ transforms[sceneOp.gone[c2]].dead
          /\ transforms[sceneOp.gone[c2]].parent = sceneOp.tid
          /\ {c1, c2} \cap DOMAIN components = {}
    /\ Cardinality(DOMAIN components) = 1
    /\ \A c \in DOMAIN components :
          /\ components[c] \in Live
          /\ component_mapping[components[c]] = <<c>>

\* ------------------------------------------------------------------------
\* Properties of the uploads and of the order of the draw calls
\* ------------------------------------------------------------------------
\* The entry of the log opens a mesh-data group
OpensGroup(entry) ==
    \/ entry[1] = "bind_attributes"
    \/ entry[1] = "error" /\ entry[2] \in {"locations", "mesh_data"}

\* C20 as stated: in a mesh-data group the uniforms of a material instance
\* are uploaded only when the instance differs from that of the entity
\* before: between two uploads of one instance the pass opened another
\* group or uploaded another instance.
C20_UploadOncePerRun ==
    [][RenderingPass =>
          \A i, j \in 1..Len(Rendered) :
             (/\ i < j
              /\ Rendered[i][1] = "instance_uniforms"
              /\ Rendered[j] = Rendered[i])
             => \E k \in (i + 1)..(j - 1) :
                   \/ OpensGroup(Rendered[k])
                   \/ /\ Rendered[k][1] = "instance_uniforms"
                      /\ Rendered[k] # Rendered[i]
    ]_vars

\* The material of a mesh entity
MaterialOf(e) == assets[rMesh[e].material + 1]

\* C19 as stated: in a frame no draw call of an entity with a transparent
\* material comes before a draw call of an entity with an opaque material.
C19_OpaqueFirst ==
    [][RenderingPass =>
          \A i, j \in 1..Len(Rendered) :
             (/\ i < j
              /\ Rendered[i][1] = "draw"
              /\ Rendered[j][1] = "draw")
             => ~(/\ is_transparent(MaterialOf(Rendered[i][2]))
                  /\ ~is_transparent(MaterialOf(Rendered[j][2])))
    ]_vars

\* ------------------------------------------------------------------------
\* Properties of the binds of a frame
\* ------------------------------------------------------------------------
\* The material whose program is in use at entry i of the log: that of the
\* last use_program at or before i, -1 when there is none
MaterialAt(log, i) ==
    LET P == {k \in 1..i : log[k][1] = "use_program"}
    IN  IF P = {} THEN -1
        ELSE log[CHOOSE k \in P : \A l \in P : l <= k][2]

\* The number of times the buffers of mesh data d are bound while the
\* program of material m is in use
BindsIn(log, m, d) ==
    Cardinality({i \in 1..Len(log) :
                    /\ log[i] = <<"bind_attributes", d>>
                    /\ MaterialAt(log, i) = m})

\* C21 as stated: in a frame the program of every registered material of
\* the grouping is put in use exactly once, and the buffers of every
\* registered mesh data are bound exactly once in each group of such a
\* material, however many entities the group holds.
C21_BoundOncePerGroup ==
    [][RenderingPass =>
          \A m \in DOMAIN rGroups' :
             get_material_with_index(TheRegistry, m)[1] = "Some"
             => /\ Times(Rendered, <<"use_program", m>>) = 1
                /\ \A d \in DOMAIN rGroups'[m] :
                      get_mesh_data_with_index(TheRegistry, d)[1] = "Some"
                      => BindsIn(Rendered, m, d) = 1
    ]_vars

\* ------------------------------------------------------------------------
\* Properties of the light uniforms
\* ------------------------------------------------------------------------
\* The step of set_material_uniforms, when it returns
LightUpload == ~upPanicked /\ upLog' # <<>> /\ ~upPanicked'

\* The locations of the directional lights of a lit program
DirectionalLocations ==
    {<<"Some", uniform_name(DIRECTIONAL_LIGHTS_NAME, i, f)>> :
        i \in 0..(MAX_NUMBER_OF_LIGHTS - 1), f \in LightFields}

PointLocations ==
    {<<"Some", uniform_name(POINT_LIGHTS_NAME, i, f)>> :
        i \in 0..(MAX_NUMBER_OF_LIGHTS - 1), f \in LightFields}

\* The entries of the log for light i of a list
EntriesOf(log, kind, i) == {k \in 1..Len(log) : log[k].of = <<kind, i>>}

\* C22 as stated: set_material_uniforms uploads light i of the directional
\* list to slot i of the directional locations of the material and light
\* i of the point list to slot i of its point locations, every field of
\* the light once; no upload of a point light goes to a location of the
\* directional lights and none of a directional light to a location of
\* the point lights.
C22_LightsToTheirSlots ==
    [][LightUpload =>
        LET G == global_uniform_locations
            R == light_repository
        IN  /\ \A i \in 0..(Len(R.directional) - 1) :
                  /\ {upLog'[k].field :
                         k \in EntriesOf(upLog', "directional", i)}
                        = LightFields
                  /\ \A k \in EntriesOf(upLog', "directional", i) :
                        /\ upLog'[k].call[2] =
                              G.directional_lights_locations[i][upLog'[k].field]
                        /\ upLog'[k].call[2] \notin PointLocations
            /\ \A i \in 0..(Len(R.point) - 1) :
                  /\ {upLog'[k].field :
                         k \in EntriesOf(upLog', "point", i)}
                        = LightFields
                  /\ \A k \in EntriesOf(upLog', "point", i) :
                        /\ upLog'[k].call[2] =
                              G.point_lights_locations[i][upLog'[k].field]
                        /\ upLog'[k].call[2] \notin DirectionalLocations
    ]_vars

\* C23 as stated: whatever the number of enabled directional and point
\* lights, no lookup of the light locations and no upload of the light
\* uniforms indexes the arrays of MAX_NUMBER_OF_LIGHTS locations out of
\* bounds.
C23_NoLightCountPanics == ~upPanicked

\* ------------------------------------------------------------------------
\* Properties of the texture uniforms
\* ------------------------------------------------------------------------
\* A texture uniform with no texture index
Unassigned(u) == u.value.kind = "texture" /\ u.texture_index = <<"None">>

\* The entries of a log that bind a texture
Binds(log) == {k \in 1..Len(log) : log[k].call[1] = "bind_texture"}

\* C24: Uniform::set_to_context of a texture uniform with no texture index
\* returns Err and makes no GL call, and set_uniforms_to_context makes no
\* GL call for such a uniform of its map: no texture is bound and no
\* sampler is set for it, on no unit.
C24_NoIndexNoBind ==
    [][/\ (/\ uOp'.name = "Uniform::set_to_context"
           /\ Unassigned(shared_uniforms[uOp'.of]))
          => /\ uLog'.result[1] = "Err"
             /\ uLog'.log = <<>>
       /\ MaterialUploads
          => \A name \in DOMAIN shared_uniforms :
                Unassigned(shared_uniforms[name])
                => \A k \in 1..Len(uLog'.log) :
                      uLog'.log[k].of = name
                      => uLog'.log[k].call[1] = "console_warn"
    ]_vars

\* A texture uniform with no texture index was uploaded on its own and
\* the call returned Err with nothing sent to the context.
C24_Witness ==
    /\ uOp.name = "Uniform::set_to_context"
    /\ Unassigned(shared_uniforms[uOp.of])
    /\ uLog.result[1] = "Err"
    /\ uLog.log = <<>>

\* C25 as stated: the upload of a texture uniform with texture index n
\* binds the texture on texture unit n and sets the sampler to n, so that
\* in one set_uniforms_to_context two texture uniforms with different
\* indices are bound on different units.
C25_UnitPerIndex ==
    [][MaterialUploads =>
          /\ \A k \in Binds(uLog'.log) :
                /\ uLog'.log[k].call[4] =
                      shared_uniforms[uLog'.log[k].of].texture_index[2]
                /\ uLog'.log[k].call[2] = <<"TEXTURE", uLog'.log[k].call[4]>>
          /\ \A j, k \in Binds(uLog'.log) :
                uLog'.log[j].call[4] # uLog'.log[k].call[4]
                => uLog'.log[j].call[2] # uLog'.log[k].call[2]
    ]_vars

\* ------------------------------------------------------------------------
\* Properties of the attribute of a Buffer
\* ------------------------------------------------------------------------
\* The step of enable_and_bind_attribute
EnablesAttribute == bLog' # <<>>

\* C26 as stated: enable_and_bind_attribute of a Buffer whose attribute
\* location is unresolved (None) or -1 does not panic and calls neither
\* enable_vertex_attrib_array nor vertex_attrib_pointer.
C26_UnresolvedIsNoOp ==
    [][(/\ EnablesAttribute
        /\ bBuffer.attribute_location \in {<<"None">>, <<"Some", -1>>})
       => /\ ~bPanicked'
          /\ \A k \in 1..Len(bLog') :
                bLog'[k][1] \notin {"enable_vertex_attrib_array",
                                    "vertex_attrib_pointer"}
    ]_vars

\* ------------------------------------------------------------------------
\* Properties of the lookups of the registry
\* ------------------------------------------------------------------------
\* The registry stores an asset of the kind under the string id: the id
\* is a key of the index and the asset at its position is of the kind
StoredUnder(kind, id) ==
    /\ id \in DOMAIN index
    /\ index[id] < Len(assets)
    /\ assets[index[id] + 1].kind = kind

\* An asset of the kind is held at the position
StoredAt(kind, i) == i < Len(assets) /\ assets[i + 1].kind = kind

\* C27: no lookup of the registry panics; for every string id
\* get_mesh_data, get_material, get_material_instance and get_texture
\* return Some exactly when an asset of that kind is stored under the id,
\* and for every position, in or out of range, the *_with_index lookups
\* return Some exactly when an asset of that kind is at the position; in
\* every other case they return None.
C27_LookupsTotal ==
    /\ \A id \in Ids :
          /\ ~get_asset_panics(TheRegistry, id)
          /\ get_mesh_data(TheRegistry, id)[1] = "Some"
                <=> StoredUnder("MeshData", id)
          /\ get_material(TheRegistry, id)[1] = "Some"
                <=> StoredUnder("Material", id)
          /\ get_material_instance(TheRegistry, id)[1] = "Some"
                <=> StoredUnder("MaterialInstance", id)
          /\ get_texture(TheRegistry, id)[1] = "Some"
                <=> StoredUnder("Texture", id)
    /\ \A i \in 0..usize_MAX :
          /\ get_mesh_data_with_index(TheRegistry, i)[1] = "Some"
                <=> StoredAt("MeshData", i)
          /\ get_material_with_index(TheRegistry, i)[1] = "Some"
                <=> StoredAt("Material", i)
          /\ get_material_instance_with_index(TheRegistry, i)[1] = "Some"
                <=> StoredAt("MaterialInstance", i)
          /\ get_texture_with_index(TheRegistry, i)[1] = "Some"
                <=> StoredAt("Texture", i)

\* The registry holds a material under "a" and another asset that is no
\* material; nothing is registered under "c".  The lookups of "a" answer
\* by its kind, those of "c" and of the first position past the end
\* answer None.
C27_Witness ==
    /\ Len(assets) = 2
    /\ get_material(TheRegistry, "a")[1] = "Some"
    /\ get_mesh_data(TheRegistry, "a")[1] = "None"
    /\ "c" \notin DOMAIN index
    /\ get_texture(TheRegistry, "c")[1] = "None"
    /\ \E i \in 0..1 :
          /\ get_material_with_index(TheRegistry, i)[1] = "None"
          /\ get_material_with_index(TheRegistry, 1 - i)[1] = "Some"
    /\ get_material_with_index(TheRegistry, Len(assets))[1] = "None"
    /\ get_mesh_data_with_index(TheRegistry, usize_MAX)[1] = "None"

\* ------------------------------------------------------------------------
\* Properties of the draw call of an entity
\* ------------------------------------------------------------------------
\* The three references of the Mesh of entity e are registered
AllRegistered(e) ==
    HasMaterial(rMesh[e]) /\ HasMeshData(rMesh[e]) /\ HasInstance(rMesh[e])

\* The material whose program is in use at entry i of the log: the one of
\* the last use_program before it, -1 when there is none
ProgramAt(log, i) ==
    LET before == {j \in 1..(i - 1) : log[j][1] = "use_program"}
    IN  IF before = {} THEN -1
        ELSE log[CHOOSE j \in before : \A k \in before : k <= j][2]

\* In the rendering pass entity e has one draw call, the entry right
\* before it is the upload of the transform of e, and the program in use
\* is the one of the material of e
DrawnOnceWithOwnMatrix(e) ==
    /\ Times(Rendered, <<"draw", e>>) = 1
    /\ \A i \in 1..Len(Rendered) :
          Rendered[i] = <<"draw", e>> =>
             /\ i > 1
             /\ Rendered[i - 1] = <<"transform_uniform", e>>
             /\ ProgramAt(Rendered, i) = rMesh[e].material

Handles(mesh) ==
    {mesh[f][2].value[2] :
        f \in {g \in DOMAIN mesh \ {"positions"} :
                  /\ mesh[g] # <<"None">>
                  /\ mesh[g][2].value # <<"None">>}}
      \cup (IF mesh.positions.value = <<"None">> THEN {}
            ELSE {mesh.positions.value[2]})

\* The step is a call of Material::construct that returns Err
MaterialConstructFails ==
    /\ programVars' # programVars
    /\ pOp'.name = "construct" /\ pOp'.result[1] = "Err"

\* The step is a call of Mesh::construct that returns Err
MeshConstructFails ==
    /\ meshVars' # meshVars
    /\ mOp'.name = "construct" /\ mOp'.result[1] = "Err"

\* C29: a call of Material::construct or Mesh::construct that returns Err
\* leaves the object unconstructed, without the program or any buffer the
\* call created; and is_constructed() is true exactly when the last
\* construct returned Ok and no deconstruct was called since.
C29_ConstructAllOrNothing ==
    [][/\ MaterialConstructFails =>
             /\ ~is_constructed(pMaterial')
             /\ pMaterial'.program = <<"None">>
       /\ MeshConstructFails =>
             /\ ~Mesh_is_constructed(mMesh')
             /\ Handles(mMesh') \subseteq 1..buffers_created
       /\ is_constructed(pMaterial')
             <=> (pOp'.name = "construct" /\ pOp'.result[1] = "Ok")
       /\ Mesh_is_constructed(mMesh') <=> mLast' = "Ok"
    ]_vars

\* ------------------------------------------------------------------------
\* Properties of the view-projection matrix of the camera
\* ------------------------------------------------------------------------
\* C30: get_vp_matrix returns Ok only when the cached vp_matrix is the
\* product of the current projection and the current view; a call that
\* changes the projection, set_aspect_ratio by a canvas resize included,
\* leaves the camera such that get_vp_matrix returns Err, until
\* compute_vp_matrix has recomputed the matrix.
C30_VpMatrixNeverStale ==
    [][/\ get_vp_matrix(main_camera')[1] = "Ok" =>
             main_camera'.vp_matrix =
                view_projection(main_camera'.projection, main_camera'.view)
       /\ main_camera'.projection # main_camera.projection =>
             get_vp_matrix(main_camera')[1] = "Err"
    ]_vars

\* ------------------------------------------------------------------------
\* Properties of the attribute locations of a Material
\* ------------------------------------------------------------------------
\* The shader compilation pass of a frame
CompilationPass == rPhase = "idle" /\ rPhase' = "compiled"

\* C31: after the shader compilation pass, the material of every mesh
\* entity whose material and mesh data are registered holds the attribute
\* locations of the buffers of the mesh data of the entity, also when one
\* mesh data is used with several materials; and the rendering pass skips
\* no buffer bind for want of a location.
C31_LocationsForEveryMaterial ==
    [][/\ CompilationPass =>
             \A e \in MeshEntities :
                HasMaterial(rMesh[e]) /\ HasMeshData(rMesh[e])
                => get_attribute_location(rAttribs',
                                          rMesh[e].material)[1] = "Some"
       /\ RenderingPass =>
             \A i \in 1..Len(Rendered) :
                ~(Rendered[i][1] = "error" /\ Rendered[i][2] = "locations")
    ]_vars

\* ------------------------------------------------------------------------
\* Properties of the free list of the scene
\* ------------------------------------------------------------------------
\* The slots whose transform is dead
DeadSlots == Slots \ Live

\* free_transforms holds the dead slots, each once
FreeListIsTheDead ==
    /\ {free_transforms[i] : i \in 1..Len(free_transforms)} = DeadSlots
    /\ \A i, j \in 1..Len(free_transforms) :
          free_transforms[i] = free_transforms[j] => i = j
    /\ Cardinality(Live) = Len(transforms) - Len(free_transforms)

\* C32: in every state reached by append_new and destroy on live ids,
\* free_transforms holds exactly the indices of the dead slots, each once,
\* and the number of live nodes is transforms.len() minus
\* free_transforms.len(); append_new never returns the index of a node
\* that is live when it is called.
C32_FreeListIsTheDead ==
    [][/\ FreeListIsTheDead'
       /\ sceneOp'.name = "append_new" /\ transforms' # transforms
             => sceneOp'.result \notin Live
    ]_vars

\* A subtree of three was destroyed and one of its slots was reused: two
\* dead slots are left on the free list beside live nodes
C32_Witness ==
    /\ sceneOp.name = "append_new"
    /\ Len(free_transforms) = 2
    /\ Cardinality(DeadSlots) = 2
    /\ Cardinality(Live) >= 2
    /\ sceneOp.result \in Live
    /\ \E d \in DeadSlots : sceneOp.result < d

\* ------------------------------------------------------------------------
\* Properties of the life of a Buffer of asset/mesh.rs
\* ------------------------------------------------------------------------
\* C33: bind returns Ok exactly when the buffer is constructed; clean
\* leaves a constructed buffer constructed, with the same buffer of the
\* context, and bindable; construct on a buffer without data returns Err
\* and leaves the constructed state as it was; after deconstruct
\* is_constructed() is false and bind returns Err.
C33_BufferLifecycle ==
    [][/\ abOp'.name = "bind" =>
             (abOp'.result[1] = "Ok" <=> Buffer_is_constructed(abBuffer))
       /\ abOp'.name = "clean" =>
             /\ abBuffer'.value = abBuffer.value
             /\ abBuffer'.data = <<"None">>
             /\ Buffer_is_constructed(abBuffer) =>
                   /\ Buffer_is_constructed(abBuffer')
                   /\ Buffer_bind(abBuffer')[1] = "Ok"
       /\ abOp'.name = "construct" /\ abBuffer.data = <<"None">> =>
             /\ abOp'.result[1] = "Err"
             /\ abBuffer'.value = abBuffer.value
       /\ abOp'.name = "deconstruct" =>
             /\ ~Buffer_is_constructed(abBuffer')
             /\ Buffer_bind(abBuffer')[1] = "Err"
    ]_vars

\* A buffer was constructed, then cleaned, then asked to construct again:
\* the call failed for want of data and the buffer is still the one of
\* the first construct, bindable
C33_Witness ==
    /\ abOp.name = "construct"
    /\ abOp.result = <<"Err", "Trying to construct buffer without data">>
    /\ abBuffer.data = <<"None">>
    /\ Buffer_is_constructed(abBuffer)
    /\ Buffer_bind(abBuffer)[1] = "Ok"
    /\ abBuffer.value[2] < buffers_created

\* ------------------------------------------------------------------------
\* Properties of the ids of the components
\* ------------------------------------------------------------------------
\* The step is a call of add_component
AddsComponent == sceneOp'.name = "add_component" /\ next_id' # next_id

\* C34: the ids given so far are the numbers below next_id, which never
\* decreases; add_component returns next_id, an id above every id given
\* before and held by no component, and moves the counter past it; no
\* other call brings an id into the scene, so an id that was removed by
\* remove_component or destroy never denotes a component again, and a
\* component keeps its id while it is in the scene.
C34_ComponentIdsUnique ==
    [][/\ next_id' >= next_id
       /\ \A c \in DOMAIN components' : c < next_id'
       /\ \A c \in DOMAIN components : c < next_id
       /\ \A c \in DOMAIN components \cap DOMAIN components' :
             components'[c] = components[c]
       /\ IF AddsComponent
          THEN /\ sceneOp'.cid = next_id
               /\ next_id' = next_id + 1
               /\ sceneOp'.cid \notin DOMAIN components
               /\ DOMAIN components' = DOMAIN components \cup {next_id}
               /\ components'[next_id] = sceneOp'.tid
          ELSE /\ next_id' = next_id
               /\ DOMAIN components' \subseteq DOMAIN components
    ]_vars

\* Components 0 and 1 are gone from the scene, a transform was destroyed,
\* and a third component was added after them: it got the id 2 and is
\* alone
C34_Witness ==
    /\ sceneOp.name = "add_component"
    /\ sceneOp.cid = 2
    /\ next_id = 3
    /\ DOMAIN components = {2}
    /\ Len(free_transforms) >= 1

====
